---------------------------- MODULE Spec2Model ----------------------------
(***************************************************************************)
(* A model of the HTML formatter of hurl_core (format/html.rs).            *)
(*                                                                         *)
(* Text is modelled by TLA+ strings, character for character: the buffer   *)
(* of an HtmlFormatter is the very string the Rust code builds, tags       *)
(* included.  Every fmt_* method becomes an operator that returns the      *)
(* sequence of buffer operations the method performs, in the order it      *)
(* performs them; the state machine executes them one at a time.           *)
(***************************************************************************)
EXTENDS Integers, Sequences, FiniteSets, TLC

VARIABLES
    procs,       \* the format calls in progress (each owns one HtmlFormatter)
    doc,         \* doc[p]: the HurlFile handed to call p
    standalone,  \* standalone[p]: the flag handed to call p
    pc,          \* pc[p]: "idle", "running", "done" or "panicked"
    todo,        \* todo[p]: buffer operations fmt_hurl_file has still to perform
    buffer,      \* buffer[p]: HtmlFormatter.buffer of call p
    log,         \* log[p]: the operations performed so far (history)
    result,      \* result[p]: the String format returned
    runs,        \* runs[p]: renders started on formatter p
    input,       \* the argument of a direct escape_xml call
    output,      \* what that call returned
    phase        \* "call" before the escape_xml call returns, "ret" after

vars == <<procs, doc, standalone, pc, todo, buffer, log, result, runs,
          input, output, phase>>

fmtVars == <<procs, doc, standalone, pc, todo, buffer, log, result, runs>>
escVars == <<input, output, phase>>

---------------------------------------------------------------------------
(* Bounds                                                                  *)

\* fragments concatenated to make an argument of escape_xml
MaxEscFrags == 2

\* fragments concatenated to make the text of a document's literals
MaxDocFrags == 1

\* entries of a document
MaxEntries == 2

\* renders started on one formatter
MaxRuns == 2

---------------------------------------------------------------------------
(* Strings                                                                 *)

Char(s, i) == SubSeq(s, i, i)

StartsWithAt(s, i, t) ==
    /\ i + Len(t) - 1 <= Len(s)
    /\ SubSeq(s, i, i + Len(t) - 1) = t

Contains(s, t) == \E i \in 1..(Len(s) - Len(t) + 1) : StartsWithAt(s, i, t)

\* str::replace(char, &str) on s[lo..hi]: every occurrence of the character
\* `from` becomes `to`, every other character is copied.
RECURSIVE replaceRange(_, _, _, _, _)
replaceRange(s, from, to, lo, hi) ==
    IF lo > hi THEN ""
    ELSE IF lo = hi THEN (IF Char(s, lo) = from THEN to ELSE Char(s, lo))
    ELSE LET mid == (lo + hi) \div 2
         IN  replaceRange(s, from, to, lo, mid)
                 \o replaceRange(s, from, to, mid + 1, hi)

replace(s, from, to) == replaceRange(s, from, to, 1, Len(s))

\* the strings ss[lo..hi] concatenated
RECURSIVE JoinRange(_, _, _)
JoinRange(ss, lo, hi) ==
    IF lo > hi THEN ""
    ELSE IF lo = hi THEN ss[lo]
    ELSE LET mid == (lo + hi) \div 2
         IN  JoinRange(ss, lo, mid) \o JoinRange(ss, mid + 1, hi)

Join(ss) == JoinRange(ss, 1, Len(ss))

\* what a sequence of buffer operations appends, and the source text of the
\* nodes they render
TextOf(ops) == Join([i \in 1..Len(ops) |-> ops[i].text])
SourceOf(ops) == Join([i \in 1..Len(ops) |-> ops[i].src])

---------------------------------------------------------------------------
(* escape_xml and encode_html                                              *)

\* the replacements applied with '&' last: "&lt;" becomes "&amp;lt;"
escape_xml_amp_last(s) ==
    replace(replace(replace(s, "<", "&lt;"), ">", "&gt;"), "&", "&amp;")

\* the '&' replacement left out
escape_xml_no_amp(s) == replace(replace(s, "<", "&lt;"), ">", "&gt;")

escape_xml(s) ==
    replace(replace(replace(s, "&", "&amp;"), "<", "&lt;"), ">", "&gt;")

encode_html(s) == replace(replace(s, ">", "&gt;"), "<", "&lt;")

---------------------------------------------------------------------------
(* Direct calls of escape_xml (as in tests::test_xml_escape)               *)

EscFrags == {"a", "&", "<", ">", "&amp;", "&lt;", "\"", "é", ";", " "}

RECURSIVE TextsOf(_, _)
TextsOf(frags, n) ==
    IF n = 0 THEN {""}
    ELSE LET prev == TextsOf(frags, n - 1)
         IN  prev \cup {t \o f : t \in prev, f \in frags}

EscTexts == TextsOf(EscFrags, MaxEscFrags)

NoFormatter ==
    /\ procs = {}
    /\ doc = <<>> /\ standalone = <<>> /\ pc = <<>> /\ todo = <<>>
    /\ buffer = <<>> /\ log = <<>> /\ result = <<>> /\ runs = <<>>

InitEscape ==
    /\ NoFormatter
    /\ input \in EscTexts
    /\ output = ""
    /\ phase = "call"

CallEscapeXml ==
    /\ phase = "call"
    /\ output' = escape_xml(input)
    /\ phase' = "ret"
    /\ UNCHANGED <<input, fmtVars>>

NextEscape == CallEscapeXml

SpecEscape == InitEscape /\ [][NextEscape]_vars

---------------------------------------------------------------------------
(* C2, C4: escape_xml                                                      *)

EscapeChar(c) ==
    CASE c = "&" -> "&amp;"
      [] c = "<" -> "&lt;"
      [] c = ">" -> "&gt;"
      [] OTHER   -> c

\* s with each character replaced on its own, in one pass
EscapeEach(s) == Join([i \in 1..Len(s) |-> EscapeChar(Char(s, i))])

Entities == {"&amp;", "&lt;", "&gt;"}

\* C2: escape_xml(s) is s with every '&' replaced by "&amp;", every '<' by
\* "&lt;" and every '>' by "&gt;" and nothing else changed; the result holds
\* no '<' or '>', every '&' of the result starts one of the three entities,
\* and a string without '&', '<', '>' is returned as it is.
C2_EscapeXml ==
    phase = "ret" =>
        /\ output = EscapeEach(input)
        /\ ~Contains(output, "<")
        /\ ~Contains(output, ">")
        /\ \A i \in 1..Len(output) :
               Char(output, i) = "&" =>
                   \E e \in Entities : StartsWithAt(output, i, e)
        /\ (~Contains(input, "&") /\ ~Contains(input, "<")
                /\ ~Contains(input, ">")) => output = input

C2_Witness ==
    /\ phase = "ret"
    /\ Contains(input, "&") /\ Contains(input, "<")
    /\ output # input

\* the places where input splits as u \o t \o v
Splits(s, t) == {i \in 1..(Len(s) - Len(t) + 1) : StartsWithAt(s, i, t)}
Before(s, i) == SubSeq(s, 1, i - 1)
After(s, i, t) == SubSeq(s, i + Len(t), Len(s))

\* C4 as stated: an "&amp;" that is already in the input is not escaped
\* again, it appears unchanged in escape_xml's result.
C4_Original ==
    phase = "ret" =>
        \A i \in Splits(input, "&amp;") :
            output = escape_xml(Before(input, i)) \o "&amp;"
                         \o escape_xml(After(input, i, "&amp;"))

\* C4 amended: the '&' of an "&amp;" of the input is escaped like any
\* other '&', so the entity comes out as "&amp;amp;"; what replacing '&'
\* first gives is that the entities escape_xml itself writes for '<' and '>'
\* are not escaped again.
C4_ReEscaped ==
    phase = "ret" =>
        /\ \A i \in Splits(input, "&amp;") :
               output = escape_xml(Before(input, i)) \o "&amp;amp;"
                            \o escape_xml(After(input, i, "&amp;"))
        /\ \A i \in Splits(input, "<") :
               output = escape_xml(Before(input, i)) \o "&lt;"
                            \o escape_xml(After(input, i, "<"))
        /\ \A i \in Splits(input, ">") :
               output = escape_xml(Before(input, i)) \o "&gt;"
                            \o escape_xml(After(input, i, ">"))

C4_Witness ==
    /\ phase = "ret"
    /\ Contains(input, "&amp;")
    /\ Contains(output, "&amp;amp;")

---------------------------------------------------------------------------
(* The tree's accessors (crate::ast, crate::typing)                        *)

\* Option<T>: <<>> is None, <<x>> is Some(x)
None == <<>>
Some(x) == <<x>>
IsSome(o) == o # <<>>

\* u64 / i32 Display
RECURSIVE Decimal(_)
Decimal(n) ==
    IF n < 0 THEN "-" \o Decimal(0 - n)
    ELSE IF n < 10 THEN Char("0123456789", n + 1)
    ELSE Decimal(n \div 10) \o Char("0123456789", (n % 10) + 1)

\* bool Display
BoolStr(b) == IF b THEN "true" ELSE "false"

\* Placeholder::to_source
placeholder_to_source(ph) ==
    "{{" \o ph.space0.value \o ph.expr \o ph.space1.value \o "}}"

\* TemplateElement: a literal carries its decoded value and its source text
element_to_source(e) ==
    IF e.type = "String" THEN e.source ELSE placeholder_to_source(e.value)

element_to_string(e) ==
    IF e.type = "String" THEN e.value ELSE placeholder_to_source(e.value)

Delimiter(t) == IF IsSome(t.delimiter) THEN t.delimiter[1] ELSE ""

\* Template::to_source: the delimiters and every element's source text
template_to_source(t) ==
    Delimiter(t)
        \o Join([i \in 1..Len(t.elements) |-> element_to_source(t.elements[i])])
        \o Delimiter(t)

\* Template's Display: every element's decoded value, no delimiter
template_to_string(t) ==
    Join([i \in 1..Len(t.elements) |-> element_to_string(t.elements[i])])

\* MultilineString::to_source: the opening fence, the attributes, the
\* whitespace and the newline that follow it, the source text of the body
\* and the closing fence (the fence is written with ' here)
multiline_string_to_source(m) ==
    "'''" \o Join(m.attributes) \o m.space.value \o m.newline.value
        \o template_to_source(m.kind.value) \o "'''"

\* JsonValue::to_source: a string is its template's source text between
\* its quotes, a number its digits, an object its members as spelled
RECURSIVE json_value_to_source(_)
json_value_to_source(j) ==
    CASE j.type = "String" -> template_to_source(j.value)
      [] j.type = "Number" -> j.value
      [] j.type = "Object" ->
            "{" \o j.space0
                \o Join([i \in 1..Len(j.elements) |->
                            LET e == j.elements[i]
                            IN  (IF i > 1 THEN "," ELSE "")
                                    \o e.space0 \o template_to_source(e.name)
                                    \o e.space1 \o ":" \o e.space2
                                    \o json_value_to_source(e.value)
                                    \o e.space3])
                \o "}"

\* the decoded text of a JSON value
RECURSIVE json_value_to_string(_)
json_value_to_string(j) ==
    CASE j.type = "String" ->
            Delimiter(j.value) \o template_to_string(j.value)
                \o Delimiter(j.value)
      [] j.type = "Number" -> j.value
      [] j.type = "Object" ->
            "{" \o j.space0
                \o Join([i \in 1..Len(j.elements) |->
                            LET e == j.elements[i]
                            IN  (IF i > 1 THEN "," ELSE "")
                                    \o e.space0 \o template_to_source(e.name)
                                    \o e.space1 \o ":" \o e.space2
                                    \o json_value_to_string(e.value)
                                    \o e.space3])
                \o "}"

---------------------------------------------------------------------------
(* Text on its way to the buffer.  A value is the text together with where *)
(* it came from: origin (what kind of node it was read from), src (the     *)
(* source text of that node), esc (how many times escape_xml was applied)  *)
(* and, for an identifier, the node family and the variant it names.       *)

Val(text, origin, src) ==
    [text |-> text, origin |-> origin, esc |-> 0, src |-> src, fam |-> "",
     of |-> ""]

\* a fixed character sequence of the grammar, written by the code itself
Grammar(text) == Val(text, "grammar", text)

\* identifier() of variant `variant` of the node family fam
Ident(fam, id, variant) ==
    [text |-> id, origin |-> "label", esc |-> 0, src |-> id, fam |-> fam,
     of |-> variant]

\* escape_xml applied to a value
Escaped(v) == [v EXCEPT !.text = escape_xml(@), !.esc = @ + 1]

\* encode_html applied to a value
Encoded(v) == [v EXCEPT !.text = encode_html(@)]

\* format!("{prefix}{v}")
Prefixed(prefix, v) == [v EXCEPT !.text = prefix \o @, !.src = prefix \o @]

---------------------------------------------------------------------------
(* Buffer operations.  An operation is one leaf method call of the         *)
(* formatter: text is what it appends to the buffer, class the span class  *)
(* (if any), val the text inside the span.  ent, side, part and idx say    *)
(* which child of the document the operation renders, and role whether it  *)
(* writes the label, the payload or the leading whitespace of the tagged   *)
(* node (fam, of); the structural methods fill them in.                    *)

Op(kind, text, class, v) ==
    [op |-> kind, text |-> text, class |-> class, val |-> v.text,
     origin |-> v.origin, esc |-> v.esc, src |-> v.src, fam |-> v.fam,
     of |-> v.of, role |-> "", ent |-> 0, side |-> "", part |-> "",
     idx |-> 0]

\* the operations `ops` write the label, the payload or the leading
\* whitespace of a node of family fam, variant `variant`
Role(role, fam, variant, ops) ==
    [i \in 1..Len(ops) |->
         [ops[i] EXCEPT !.role = role, !.fam = fam, !.of = variant]]

Markup == Val("", "markup", "")

\* self.buffer.clear()
buffer_clear == <<Op("clear", "", "", Markup)>>

\* self.buffer.push_str(v) / self.buffer.push(c)
push_str(v) == <<Op("push", v.text, "", v)>>

\* no arm of a match applies
unreachable == <<Op("panic", "", "", Markup)>>

SpanOpenTag(class) == "<span class=\"" \o class \o "\">"
SpanCloseTag == "</span>"

fmt_pre_open(class) ==
    <<Op("push", "<pre><code class=\"" \o class \o "\">", class,
         Val("", "pre_open", ""))>>

fmt_pre_close ==
    <<Op("push", "</code></pre>", "", Val("", "pre_close", ""))>>

fmt_span_open(class) ==
    <<Op("push", SpanOpenTag(class), class, Val("", "open", ""))>>

fmt_span_close == <<Op("push", SpanCloseTag, "", Val("", "close", ""))>>

fmt_span(class, v) ==
    <<Op("push", SpanOpenTag(class) \o v.text \o SpanCloseTag, class, v)>>

fmt_string(v) == fmt_span("string", v)

fmt_number(v) == fmt_span("number", v)

fmt_bool(b) == fmt_span("boolean", Val(BoolStr(b), "literal", BoolStr(b)))

fmt_space(space) ==
    IF space.value # ""
    THEN push_str(Val(space.value, "space", space.value))
    ELSE <<>>

fmt_comment(comment) ==
    fmt_span("comment",
             Prefixed("#", Escaped(Val(comment.value, "comment", comment.value))))

Newline(lt) == Val(lt.newline.value, "newline", lt.newline.value)

fmt_lt(lt) ==
    fmt_space(lt.space0)
        \o (IF IsSome(lt.comment) THEN fmt_comment(lt.comment[1]) ELSE <<>>)
        \o push_str(Newline(lt))

\* a member whose newline is empty left out altogether
RECURSIVE fmt_lts_skip_empty(_)
fmt_lts_skip_empty(line_terminators) ==
    IF line_terminators = <<>> THEN <<>>
    ELSE LET lt == Head(line_terminators)
         IN  (IF lt.newline.value # "" THEN fmt_lt(lt) ELSE <<>>)
                 \o fmt_lts_skip_empty(Tail(line_terminators))

RECURSIVE fmt_lts(_)
fmt_lts(line_terminators) ==
    IF line_terminators = <<>> THEN <<>>
    ELSE LET lt == Head(line_terminators)
         IN  fmt_space(lt.space0)
                 \o (IF IsSome(lt.comment) THEN fmt_comment(lt.comment[1])
                     ELSE <<>>)
                 \o (IF lt.newline.value # "" THEN push_str(Newline(lt))
                     ELSE <<>>)
                 \o fmt_lts(Tail(line_terminators))

TemplateSource(template) ==
    Val(template_to_source(template), "template", template_to_source(template))

\* escape_xml applied twice
fmt_template_twice(template) ==
    fmt_string(Escaped(Escaped(TemplateSource(template))))

fmt_template(template) == fmt_string(Escaped(TemplateSource(template)))

fmt_placeholder(placeholder) ==
    fmt_span("expr", Val(placeholder_to_source(placeholder), "placeholder",
                         placeholder_to_source(placeholder)))

fmt_regex(regex) == fmt_span("regex", Val(regex.source, "regex", regex.source))

\* the filename escaped like any other template
fmt_filename_escaped(filename) ==
    fmt_span_open("filename")
        \o push_str(Escaped(Val(replace(template_to_string(filename), " ",
                                        "\\ "),
                                "template", template_to_source(filename))))
        \o fmt_span_close

fmt_filename(filename) ==
    fmt_span_open("filename")
        \o push_str(Val(replace(template_to_string(filename), " ", "\\ "),
                        "template", template_to_source(filename)))
        \o fmt_span_close

fmt_multiline_string(multiline_string) ==
    fmt_span("multiline",
             Escaped(Val(multiline_string_to_source(multiline_string),
                         "multiline",
                         multiline_string_to_source(multiline_string))))

\* the decoded value rendered in place of the source text
fmt_json_value_decoded(json_value) ==
    fmt_span("json",
             Escaped(Val(json_value_to_string(json_value), "json",
                         json_value_to_source(json_value))))

fmt_json_value(json_value) ==
    fmt_span("json",
             Escaped(Val(json_value_to_source(json_value), "json",
                         json_value_to_source(json_value))))

fmt_xml(value) == fmt_span("xml", Escaped(Val(value, "xml", value)))

fmt_file(file) ==
    push_str(Grammar("file,"))
        \o fmt_space(file.space0)
        \o fmt_filename(file.filename)
        \o fmt_space(file.space1)
        \o push_str(Grammar(";"))

fmt_base64(base64) ==
    push_str(Grammar("base64,"))
        \o fmt_space(base64.space0)
        \o fmt_span("base64", Val(base64.source, "literal", base64.source))
        \o fmt_space(base64.space1)
        \o push_str(Grammar(";"))

fmt_hex(hex) ==
    push_str(Grammar("hex,"))
        \o fmt_space(hex.space0)
        \o fmt_span("hex", Val(hex.source, "literal", hex.source))
        \o fmt_space(hex.space1)
        \o push_str(Grammar(";"))

fmt_bytes(bytes) ==
    CASE bytes.type = "Base64" -> fmt_base64(bytes.value)
      [] bytes.type = "File" -> fmt_file(bytes.value)
      [] bytes.type = "Hex" -> fmt_hex(bytes.value)
      [] bytes.type = "OnelineString" -> fmt_template(bytes.value)
      [] bytes.type = "Json" -> fmt_json_value(bytes.value)
      [] bytes.type = "MultilineString" -> fmt_multiline_string(bytes.value)
      [] bytes.type = "Xml" -> fmt_xml(bytes.value)
      [] OTHER -> unreachable

fmt_body(body) ==
    fmt_lts(body.line_terminators)
        \o fmt_space(body.space0)
        \o fmt_bytes(body.value)
        \o fmt_space(body.line_terminator0.space0)
        \o (IF IsSome(body.line_terminator0.comment)
            THEN fmt_comment(body.line_terminator0.comment[1]) ELSE <<>>)
        \o push_str(Newline(body.line_terminator0))

---------------------------------------------------------------------------
(* identifier() of the tagged variants (crate::ast).  The specification    *)
(* names the label of the regex query ("regex") and of the match predicate *)
(* ("match"); the other strings are the keywords of the Hurl grammar.      *)

QueryIdentifier ==
    [Header |-> "header", Cookie |-> "cookie", Xpath |-> "xpath",
     Jsonpath |-> "jsonpath", Regex |-> "regex", Variable |-> "variable",
     Certificate |-> "certificate", Status |-> "status",
     Version |-> "version", Url |-> "url", Body |-> "body",
     Duration |-> "duration", Bytes |-> "bytes", Sha256 |-> "sha256",
     Md5 |-> "md5", Ip |-> "ip", Redirects |-> "redirects"]

FilterIdentifier ==
    [Decode |-> "decode", Format |-> "format", JsonPath |-> "jsonpath",
     Nth |-> "nth", Regex |-> "regex", Replace |-> "replace",
     ReplaceRegex |-> "replaceRegex", Split |-> "split", ToDate |-> "toDate",
     UrlQueryParam |-> "urlQueryParam", XPath |-> "xpath",
     Base64Decode |-> "base64Decode", Base64Encode |-> "base64Encode",
     Base64UrlSafeDecode |-> "base64UrlSafeDecode",
     Base64UrlSafeEncode |-> "base64UrlSafeEncode", Count |-> "count",
     DaysAfterNow |-> "daysAfterNow", DaysBeforeNow |-> "daysBeforeNow",
     First |-> "first", HtmlEscape |-> "htmlEscape",
     HtmlUnescape |-> "htmlUnescape", Last |-> "last",
     Location |-> "location", ToFloat |-> "toFloat", ToHex |-> "toHex",
     ToInt |-> "toInt", ToString |-> "toString", UrlDecode |-> "urlDecode",
     UrlEncode |-> "urlEncode"]

PredicateIdentifier ==
    [Equal |-> "==", NotEqual |-> "!=", GreaterThan |-> ">",
     GreaterThanOrEqual |-> ">=", LessThan |-> "<", LessThanOrEqual |-> "<=",
     StartWith |-> "startsWith", EndWith |-> "endsWith",
     Contain |-> "contains", Include |-> "includes", Match |-> "match",
     IsInteger |-> "isInteger", IsFloat |-> "isFloat",
     IsBoolean |-> "isBoolean", IsString |-> "isString",
     IsCollection |-> "isCollection", IsDate |-> "isDate",
     IsIsoDate |-> "isIsoDate", Exist |-> "exists", IsEmpty |-> "isEmpty",
     IsNumber |-> "isNumber", IsIpv4 |-> "isIpv4", IsIpv6 |-> "isIpv6"]

OptionIdentifier ==
    [AwsSigV4 |-> "aws-sigv4", CaCertificate |-> "cacert",
     ClientCert |-> "cert", ClientKey |-> "key", Compressed |-> "compressed",
     ConnectTo |-> "connect-to", ConnectTimeout |-> "connect-timeout",
     Delay |-> "delay", FollowLocation |-> "location",
     FollowLocationTrusted |-> "location-trusted", Header |-> "header",
     Http10 |-> "http1.0", Http11 |-> "http1.1", Http2 |-> "http2",
     Http3 |-> "http3", Insecure |-> "insecure", IpV4 |-> "ipv4",
     IpV6 |-> "ipv6", LimitRate |-> "limit-rate",
     MaxRedirect |-> "max-redirs", MaxTime |-> "max-time",
     NetRc |-> "netrc", NetRcFile |-> "netrc-file",
     NetRcOptional |-> "netrc-optional", Output |-> "output",
     PathAsIs |-> "path-as-is", PinnedPublicKey |-> "pinnedpubkey",
     Proxy |-> "proxy", Repeat |-> "repeat", Resolve |-> "resolve",
     Retry |-> "retry", RetryInterval |-> "retry-interval", Skip |-> "skip",
     UnixSocket |-> "unix-socket", User |-> "user", Variable |-> "variable",
     Verbose |-> "verbose", VeryVerbose |-> "very-verbose"]

\* Section::identifier: three sections have a short and a long spelling
SectionIdentifier(value) ==
    CASE value.type = "Asserts" -> "Asserts"
      [] value.type = "QueryParams" ->
             IF value.short THEN "Query" ELSE "QueryStringParams"
      [] value.type = "BasicAuth" -> "BasicAuth"
      [] value.type = "FormParams" ->
             IF value.short THEN "Form" ELSE "FormParams"
      [] value.type = "MultipartFormData" ->
             IF value.short THEN "Multipart" ELSE "MultipartFormData"
      [] value.type = "Cookies" -> "Cookies"
      [] value.type = "Captures" -> "Captures"
      [] value.type = "Options" -> "Options"

CertificateAttributeIdentifier ==
    [Subject |-> "Subject", Issuer |-> "Issuer", StartDate |-> "Start-Date",
     ExpireDate |-> "Expire-Date", SerialNumber |-> "Serial-Number"]

---------------------------------------------------------------------------
(* Structural methods                                                      *)

\* iter().for_each(f): the operations of f on every member, in order
RECURSIVE Flat(_)
Flat(opss) == IF opss = <<>> THEN <<>> ELSE Head(opss) \o Flat(Tail(opss))

ForEach(items, f(_)) == Flat([i \in 1..Len(items) |-> f(items[i])])

fmt_kv(kv) ==
    fmt_lts(kv.line_terminators)
        \o fmt_space(kv.space0)
        \o fmt_template(kv.key)
        \o fmt_space(kv.space1)
        \o push_str(Grammar(":"))
        \o fmt_space(kv.space2)
        \o fmt_template(kv.value)
        \o fmt_lt(kv.line_terminator0)

\* Count::Infinite written as the number 0
fmt_count_infinite_zero(count) ==
    IF count.type = "Finite"
    THEN fmt_number(Val(Decimal(count.n), "literal", Decimal(count.n)))
    ELSE fmt_number(Val(Decimal(0), "literal", "0"))

fmt_count(count) ==
    IF count.type = "Finite"
    THEN fmt_number(Val(Decimal(count.n), "literal", Decimal(count.n)))
    ELSE fmt_number(Val(Decimal(0 - 1), "literal", "-1"))

fmt_count_option(count_option) ==
    IF count_option.type = "Literal" THEN fmt_count(count_option.value)
    ELSE fmt_placeholder(count_option.value)

fmt_bool_option(value) ==
    IF value.type = "Literal"
    THEN fmt_span("boolean",
                  Val(BoolStr(value.value), "literal", BoolStr(value.value)))
    ELSE fmt_placeholder(value.value)

fmt_natural_option(value) ==
    IF value.type = "Literal"
    THEN fmt_span("number",
                  Val(value.value.source, "literal", value.value.source))
    ELSE fmt_placeholder(value.value)

fmt_duration_option(value) ==
    IF value.type = "Literal"
    THEN fmt_span("number",
                  Val(value.value.value.source, "literal",
                      value.value.value.source))
             \o (IF IsSome(value.value.unit)
                 THEN fmt_span("unit", Val(value.value.unit[1], "literal",
                                           value.value.unit[1]))
                 ELSE <<>>)
    ELSE fmt_placeholder(value.value)

fmt_variable_value(option) ==
    CASE option.type = "Null" -> fmt_span("null", Val("null", "literal", "null"))
      [] option.type = "Bool" -> fmt_bool(option.value)
      [] option.type = "Number" ->
             fmt_number(Val(option.value.source, "literal", option.value.source))
      [] option.type = "String" -> fmt_template(option.value)
      [] OTHER -> unreachable

fmt_variable_definition(option) ==
    push_str(Val(option.name, "name", option.name))
        \o fmt_space(option.space0)
        \o push_str(Grammar("="))
        \o fmt_space(option.space1)
        \o fmt_variable_value(option.value)

fmt_option_kind(kind) ==
    CASE kind.type \in {"AwsSigV4", "ConnectTo", "Header", "PinnedPublicKey",
                        "Proxy", "Resolve", "User"} ->
             fmt_template(kind.value)
      [] kind.type \in {"CaCertificate", "ClientCert", "ClientKey",
                        "NetRcFile", "Output", "UnixSocket"} ->
             fmt_filename(kind.value)
      [] kind.type \in {"Compressed", "FollowLocation",
                        "FollowLocationTrusted", "Http10", "Http11", "Http2",
                        "Http3", "Insecure", "IpV4", "IpV6", "NetRc",
                        "NetRcOptional", "PathAsIs", "Skip", "Verbose",
                        "VeryVerbose"} ->
             fmt_bool_option(kind.value)
      [] kind.type \in {"ConnectTimeout", "Delay", "MaxTime",
                        "RetryInterval"} ->
             fmt_duration_option(kind.value)
      [] kind.type = "LimitRate" -> fmt_natural_option(kind.value)
      [] kind.type \in {"MaxRedirect", "Repeat", "Retry"} ->
             fmt_count_option(kind.value)
      [] kind.type = "Variable" -> fmt_variable_definition(kind.value)
      [] OTHER -> unreachable

fmt_entry_option(option) ==
    Role("lead", "Option", option.kind.type,
         fmt_lts(option.line_terminators) \o fmt_space(option.space0))
        \o Role("label", "Option", option.kind.type,
                fmt_string(Ident("Option", OptionIdentifier[option.kind.type],
                                 option.kind.type)))
        \o Role("payload", "Option", option.kind.type,
                fmt_space(option.space1)
                    \o push_str(Grammar(":"))
                    \o fmt_space(option.space2)
                    \o fmt_option_kind(option.kind)
                    \o fmt_lt(option.line_terminator0))

fmt_file_value(file_value) ==
    push_str(Grammar("file,"))
        \o fmt_space(file_value.space0)
        \o fmt_filename(file_value.filename)
        \o fmt_space(file_value.space1)
        \o push_str(Grammar(";"))
        \o fmt_space(file_value.space2)
        \o (IF IsSome(file_value.content_type)
            THEN fmt_template(file_value.content_type[1]) ELSE <<>>)

fmt_file_param(param) ==
    fmt_lts(param.line_terminators)
        \o fmt_space(param.space0)
        \o fmt_template(param.key)
        \o fmt_space(param.space1)
        \o push_str(Grammar(":"))
        \o fmt_space(param.space2)
        \o fmt_file_value(param.value)
        \o fmt_lt(param.line_terminator0)

fmt_multipart_param(param) ==
    CASE param.type = "Param" -> fmt_kv(param.value)
      [] param.type = "FilenameParam" -> fmt_file_param(param.value)
      [] OTHER -> unreachable

fmt_cookie(cookie) ==
    fmt_lts(cookie.line_terminators)
        \o fmt_space(cookie.space0)
        \o fmt_template(cookie.name)
        \o fmt_space(cookie.space1)
        \o push_str(Grammar(":"))
        \o fmt_space(cookie.space2)
        \o fmt_template(cookie.value)
        \o fmt_lt(cookie.line_terminator0)

fmt_regex_value(regex_value) ==
    CASE regex_value.type = "Template" -> fmt_template(regex_value.value)
      [] regex_value.type = "Regex" -> fmt_regex(regex_value.value)
      [] OTHER -> unreachable

fmt_cookie_attribute(cookie_attribute) ==
    fmt_space(cookie_attribute.space0)
        \o push_str(Val(cookie_attribute.name.value, "name",
                        cookie_attribute.name.value))
        \o fmt_space(cookie_attribute.space1)

\* the brackets written whether or not there is an attribute
fmt_cookie_path_brackets(cookie_path) ==
    fmt_span_open("string")
        \o push_str(Grammar("\""))
        \o push_str(TemplateSource(cookie_path.name))
        \o push_str(Grammar("["))
        \o (IF IsSome(cookie_path.attribute)
            THEN fmt_cookie_attribute(cookie_path.attribute[1]) ELSE <<>>)
        \o push_str(Grammar("]"))
        \o push_str(Grammar("\""))
        \o fmt_span_close

fmt_cookie_path(cookie_path) ==
    fmt_span_open("string")
        \o push_str(Grammar("\""))
        \o push_str(TemplateSource(cookie_path.name))
        \o (IF IsSome(cookie_path.attribute)
            THEN push_str(Grammar("["))
                     \o fmt_cookie_attribute(cookie_path.attribute[1])
                     \o push_str(Grammar("]"))
            ELSE <<>>)
        \o push_str(Grammar("\""))
        \o fmt_span_close

fmt_certificate_attribute_name(name) ==
    fmt_span_open("string")
        \o push_str(Grammar("\""))
        \o push_str(Val(CertificateAttributeIdentifier[name], "name",
                        CertificateAttributeIdentifier[name]))
        \o push_str(Grammar("\""))
        \o fmt_span_close

QueryNoPayload == {"Status", "Version", "Url", "Body", "Duration", "Bytes",
                   "Sha256", "Md5", "Ip", "Redirects"}

fmt_query_payload(query_value) ==
    CASE query_value.type = "Header" ->
             fmt_space(query_value.space0) \o fmt_template(query_value.name)
      [] query_value.type = "Cookie" ->
             fmt_space(query_value.space0) \o fmt_cookie_path(query_value.expr)
      [] query_value.type = "Xpath" ->
             fmt_space(query_value.space0) \o fmt_template(query_value.expr)
      [] query_value.type = "Jsonpath" ->
             fmt_space(query_value.space0) \o fmt_template(query_value.expr)
      [] query_value.type = "Regex" ->
             fmt_space(query_value.space0)
                 \o fmt_regex_value(query_value.value)
      [] query_value.type = "Variable" ->
             fmt_space(query_value.space0) \o fmt_template(query_value.name)
      [] query_value.type = "Certificate" ->
             fmt_space(query_value.space0)
                 \o fmt_certificate_attribute_name(query_value.attribute_name)
      [] query_value.type \in QueryNoPayload -> <<>>
      [] OTHER -> unreachable

QueryLabel(query_value) ==
    Role("label", "Query", query_value.type,
         fmt_span("query-type",
                  Ident("Query", QueryIdentifier[query_value.type],
                        query_value.type)))

QueryPayload(query_value) ==
    Role("payload", "Query", query_value.type, fmt_query_payload(query_value))

\* the label written after the payload
fmt_query_value_label_last(query_value) ==
    QueryPayload(query_value) \o QueryLabel(query_value)

fmt_query_value(query_value) ==
    QueryLabel(query_value) \o QueryPayload(query_value)

fmt_query(query) == fmt_query_value(query.value)

FilterNoPayload ==
    {"Base64Decode", "Base64Encode", "Base64UrlSafeDecode",
     "Base64UrlSafeEncode", "Count", "DaysAfterNow", "DaysBeforeNow",
     "First", "HtmlEscape", "HtmlUnescape", "Last", "Location", "ToFloat",
     "ToHex", "ToInt", "ToString", "UrlDecode", "UrlEncode"}

fmt_filter_payload(filter_value) ==
    CASE filter_value.type = "Decode" ->
             fmt_space(filter_value.space0)
                 \o fmt_template(filter_value.encoding)
      [] filter_value.type = "Format" ->
             fmt_space(filter_value.space0) \o fmt_template(filter_value.fmt)
      [] filter_value.type = "JsonPath" ->
             fmt_space(filter_value.space0) \o fmt_template(filter_value.expr)
      [] filter_value.type = "Nth" ->
             fmt_space(filter_value.space0)
                 \o fmt_number(Val(filter_value.n.source, "literal",
                                   filter_value.n.source))
      [] filter_value.type = "Regex" ->
             fmt_space(filter_value.space0)
                 \o fmt_regex_value(filter_value.value)
      [] filter_value.type = "Replace" ->
             fmt_space(filter_value.space0)
                 \o fmt_template(filter_value.old_value)
                 \o fmt_space(filter_value.space1)
                 \o fmt_template(filter_value.new_value)
      [] filter_value.type = "ReplaceRegex" ->
             fmt_space(filter_value.space0)
                 \o fmt_regex_value(filter_value.pattern)
                 \o fmt_space(filter_value.space1)
                 \o fmt_template(filter_value.new_value)
      [] filter_value.type = "Split" ->
             fmt_space(filter_value.space0) \o fmt_template(filter_value.sep)
      [] filter_value.type = "ToDate" ->
             fmt_space(filter_value.space0) \o fmt_template(filter_value.fmt)
      [] filter_value.type = "UrlQueryParam" ->
             fmt_space(filter_value.space0) \o fmt_template(filter_value.param)
      [] filter_value.type = "XPath" ->
             fmt_space(filter_value.space0) \o fmt_template(filter_value.expr)
      [] filter_value.type \in FilterNoPayload -> <<>>
      [] OTHER -> unreachable

fmt_filter_value(filter_value) ==
    Role("label", "Filter", filter_value.type,
         fmt_span("filter-type",
                  Ident("Filter", FilterIdentifier[filter_value.type],
                        filter_value.type)))
        \o Role("payload", "Filter", filter_value.type,
                fmt_filter_payload(filter_value))

fmt_filter(filter) == fmt_filter_value(filter.value)

\* for (space, filter) in filters.iter()
fmt_filters(filters) ==
    Flat([i \in 1..Len(filters) |->
              fmt_space(filters[i][1]) \o fmt_filter(filters[i][2])])

fmt_predicate_value(predicate_value) ==
    CASE predicate_value.type = "String" -> fmt_template(predicate_value.value)
      [] predicate_value.type = "MultilineString" ->
             fmt_multiline_string(predicate_value.value)
      [] predicate_value.type = "Number" ->
             fmt_number(Val(predicate_value.value.source, "literal",
                            predicate_value.value.source))
      [] predicate_value.type = "Bool" -> fmt_bool(predicate_value.value)
      [] predicate_value.type = "File" -> fmt_file(predicate_value.value)
      [] predicate_value.type = "Hex" -> fmt_hex(predicate_value.value)
      [] predicate_value.type = "Base64" -> fmt_base64(predicate_value.value)
      [] predicate_value.type = "Placeholder" ->
             fmt_placeholder(predicate_value.value)
      [] predicate_value.type = "Null" ->
             fmt_span("null", Val("null", "literal", "null"))
      [] predicate_value.type = "Regex" -> fmt_regex(predicate_value.value)
      [] OTHER -> unreachable

PredicateWithValue ==
    {"Equal", "NotEqual", "GreaterThan", "GreaterThanOrEqual", "LessThan",
     "LessThanOrEqual", "StartWith", "EndWith", "Contain", "Include", "Match"}
PredicateNoValue ==
    {"IsInteger", "IsFloat", "IsBoolean", "IsString", "IsCollection",
     "IsDate", "IsIsoDate", "Exist", "IsEmpty", "IsNumber", "IsIpv4",
     "IsIpv6"}

fmt_predicate_payload(value) ==
    CASE value.type \in PredicateWithValue ->
             fmt_space(value.space0) \o fmt_predicate_value(value.value)
      [] value.type \in PredicateNoValue -> <<>>
      [] OTHER -> unreachable

fmt_predicate_func_value(value) ==
    Role("label", "Predicate", value.type,
         fmt_span_open("predicate-type")
             \o push_str(Encoded(Ident("Predicate",
                                       PredicateIdentifier[value.type],
                                       value.type)))
             \o fmt_span_close)
        \o Role("payload", "Predicate", value.type,
                fmt_predicate_payload(value))

fmt_predicate_func(predicate_func) ==
    fmt_predicate_func_value(predicate_func.value)

fmt_predicate(predicate) ==
    (IF predicate.not
     THEN fmt_span("not", Val("not", "literal", "not"))
              \o fmt_space(predicate.space0)
     ELSE <<>>)
        \o fmt_predicate_func(predicate.predicate_func)

fmt_assert(assert) ==
    fmt_lts(assert.line_terminators)
        \o fmt_space(assert.space0)
        \o fmt_query(assert.query)
        \o fmt_filters(assert.filters)
        \o fmt_space(assert.space1)
        \o fmt_predicate(assert.predicate)
        \o fmt_lt(assert.line_terminator0)

\* the redact marker written before the filter chain
fmt_capture_redact_first(capture) ==
    fmt_lts(capture.line_terminators)
        \o fmt_space(capture.space0)
        \o fmt_template(capture.name)
        \o fmt_space(capture.space1)
        \o push_str(Grammar(":"))
        \o fmt_space(capture.space2)
        \o fmt_query(capture.query)
        \o (IF capture.redact
            THEN fmt_string(Val("redact", "literal", "redact")) ELSE <<>>)
        \o fmt_filters(capture.filters)
        \o fmt_space(capture.space3)
        \o fmt_lt(capture.line_terminator0)

fmt_capture(capture) ==
    fmt_lts(capture.line_terminators)
        \o fmt_space(capture.space0)
        \o fmt_template(capture.name)
        \o fmt_space(capture.space1)
        \o push_str(Grammar(":"))
        \o fmt_space(capture.space2)
        \o fmt_query(capture.query)
        \o fmt_filters(capture.filters)
        \o fmt_space(capture.space3)
        \o (IF capture.redact
            THEN fmt_string(Val("redact", "literal", "redact")) ELSE <<>>)
        \o fmt_lt(capture.line_terminator0)

\* the Cookies arm missing
fmt_section_value_no_cookies(section_value) ==
    CASE section_value.type = "Asserts" ->
             ForEach(section_value.items, fmt_assert)
      [] section_value.type \in {"QueryParams", "FormParams", "BasicAuth"} ->
             ForEach(section_value.items, fmt_kv)
      [] section_value.type = "MultipartFormData" ->
             ForEach(section_value.items, fmt_multipart_param)
      [] section_value.type = "Captures" ->
             ForEach(section_value.items, fmt_capture)
      [] section_value.type = "Options" ->
             ForEach(section_value.items, fmt_entry_option)
      [] OTHER -> unreachable

\* BasicAuth holds an Option<KeyValue>: items has at most one member
fmt_section_value(section_value) ==
    CASE section_value.type = "Asserts" ->
             ForEach(section_value.items, fmt_assert)
      [] section_value.type = "QueryParams" ->
             ForEach(section_value.items, fmt_kv)
      [] section_value.type = "BasicAuth" ->
             ForEach(section_value.items, fmt_kv)
      [] section_value.type = "FormParams" ->
             ForEach(section_value.items, fmt_kv)
      [] section_value.type = "MultipartFormData" ->
             ForEach(section_value.items, fmt_multipart_param)
      [] section_value.type = "Cookies" ->
             ForEach(section_value.items, fmt_cookie)
      [] section_value.type = "Captures" ->
             ForEach(section_value.items, fmt_capture)
      [] section_value.type = "Options" ->
             ForEach(section_value.items, fmt_entry_option)
      [] OTHER -> unreachable

fmt_section(section) ==
    fmt_lts(section.line_terminators)
        \o fmt_space(section.space0)
        \o fmt_span("section-header",
                    Val("[" \o SectionIdentifier(section.value) \o "]",
                        "section",
                        "[" \o SectionIdentifier(section.value) \o "]"))
        \o fmt_lt(section.line_terminator0)
        \o fmt_section_value(section.value)

\* Method's Display is the method's own text
fmt_method(method) == fmt_span("method", Val(method, "literal", method))

\* VersionValue's Display
VersionString ==
    [Version1 |-> "HTTP/1.0", Version11 |-> "HTTP/1.1", Version2 |-> "HTTP/2",
     Version3 |-> "HTTP/3", VersionAny |-> "HTTP"]

fmt_version(version) ==
    fmt_span("version", Val(VersionString[version.value], "literal",
                            VersionString[version.value]))

\* StatusValue's Display
StatusString(value) ==
    IF value.type = "Any" THEN "*" ELSE Decimal(value.n)

fmt_status(status) ==
    fmt_number(Val(StatusString(status.value), "literal",
                   StatusString(status.value)))

\* the operations `ops` render child `part` (member idx) of a request or
\* response
At(part, idx, ops) ==
    [i \in 1..Len(ops) |-> [ops[i] EXCEPT !.part = part, !.idx = idx]]

EachAt(part, items, f(_)) ==
    Flat([i \in 1..Len(items) |-> At(part, i, f(items[i]))])

\* the sections rendered before the headers
fmt_request_sections_first(request) ==
    At("open", 0, fmt_span_open("request"))
        \o At("line_terminators", 0, fmt_lts(request.line_terminators))
        \o At("space0", 0, fmt_space(request.space0))
        \o At("method", 0, fmt_method(request.method))
        \o At("space1", 0, fmt_space(request.space1))
        \o At("url", 0,
              fmt_span("url", Escaped(Val(template_to_source(request.url),
                                          "template",
                                          template_to_source(request.url)))))
        \o At("line_terminator0", 0, fmt_lt(request.line_terminator0))
        \o EachAt("sections", request.sections, fmt_section)
        \o EachAt("headers", request.headers, fmt_kv)
        \o (IF IsSome(request.body)
            THEN At("body", 0, fmt_body(request.body[1])) ELSE <<>>)
        \o At("close", 0, fmt_span_close)

fmt_request(request) ==
    At("open", 0, fmt_span_open("request"))
        \o At("line_terminators", 0, fmt_lts(request.line_terminators))
        \o At("space0", 0, fmt_space(request.space0))
        \o At("method", 0, fmt_method(request.method))
        \o At("space1", 0, fmt_space(request.space1))
        \o At("url", 0,
              fmt_span("url", Escaped(Val(template_to_source(request.url),
                                          "template",
                                          template_to_source(request.url)))))
        \o At("line_terminator0", 0, fmt_lt(request.line_terminator0))
        \o EachAt("headers", request.headers, fmt_kv)
        \o EachAt("sections", request.sections, fmt_section)
        \o (IF IsSome(request.body)
            THEN At("body", 0, fmt_body(request.body[1])) ELSE <<>>)
        \o At("close", 0, fmt_span_close)

\* the span of the response left open
fmt_response_unclosed(response) ==
    At("open", 0, fmt_span_open("response"))
        \o At("line_terminators", 0, fmt_lts(response.line_terminators))
        \o At("space0", 0, fmt_space(response.space0))
        \o At("version", 0, fmt_version(response.version))
        \o At("space1", 0, fmt_space(response.space1))
        \o At("status", 0, fmt_status(response.status))
        \o At("line_terminator0", 0, fmt_lt(response.line_terminator0))
        \o EachAt("headers", response.headers, fmt_kv)
        \o EachAt("sections", response.sections, fmt_section)
        \o (IF IsSome(response.body)
            THEN At("body", 0, fmt_body(response.body[1])) ELSE <<>>)

fmt_response(response) ==
    At("open", 0, fmt_span_open("response"))
        \o At("line_terminators", 0, fmt_lts(response.line_terminators))
        \o At("space0", 0, fmt_space(response.space0))
        \o At("version", 0, fmt_version(response.version))
        \o At("space1", 0, fmt_space(response.space1))
        \o At("status", 0, fmt_status(response.status))
        \o At("line_terminator0", 0, fmt_lt(response.line_terminator0))
        \o EachAt("headers", response.headers, fmt_kv)
        \o EachAt("sections", response.sections, fmt_section)
        \o (IF IsSome(response.body)
            THEN At("body", 0, fmt_body(response.body[1])) ELSE <<>>)
        \o At("close", 0, fmt_span_close)

\* the operations `ops` belong to `side` of an entry: the entry's own span
\* ("entry", "entry_end"), its request or its response
Side(side, ops) == [i \in 1..Len(ops) |-> [ops[i] EXCEPT !.side = side]]

fmt_entry(entry) ==
    Side("entry", fmt_span_open("entry"))
        \o Side("request", fmt_request(entry.request))
        \o (IF IsSome(entry.response)
            THEN Side("response", fmt_response(entry.response[1])) ELSE <<>>)
        \o Side("entry_end", fmt_span_close)

\* the operations `ops` render entry number ent of the file
Ent(ent, ops) == [i \in 1..Len(ops) |-> [ops[i] EXCEPT !.ent = ent]]

fmt_entries(entries) ==
    Flat([i \in 1..Len(entries) |-> Ent(i, fmt_entry(entries[i]))])

\* self.buffer.clear() left out
fmt_hurl_file_no_clear(hurl_file) ==
    Side("pre_open", fmt_pre_open("language-hurl"))
        \o fmt_entries(hurl_file.entries)
        \o Side("line_terminators", fmt_lts(hurl_file.line_terminators))
        \o Side("pre_close", fmt_pre_close)

fmt_hurl_file(hurl_file) ==
    Side("clear", buffer_clear)
        \o Side("pre_open", fmt_pre_open("language-hurl"))
        \o fmt_entries(hurl_file.entries)
        \o Side("line_terminators", fmt_lts(hurl_file.line_terminators))
        \o Side("pre_close", fmt_pre_close)

\* include_str!("hurl.css"): the static stylesheet
HurlCss == "span.method { color: black; }\n"

hurl_css == HurlCss

PageHead ==
    "<!DOCTYPE html>\n<html>\n    <head>\n        <meta charset=\"utf-8\">\n"
        \o "        <title>Hurl File</title>\n        <style>\n"
PageMid == "\n        </style>\n    </head>\n    <body>\n"
PageTail == "\n    </body>\n</html>\n"

\* what format returns once fmt_hurl_file has returned `body`, with the
\* stylesheet left out of the page
format_result_no_css(body, isStandalone) ==
    IF isStandalone THEN PageHead \o PageMid \o body \o PageTail ELSE body

\* what format returns once fmt_hurl_file has returned `body`
format_result(body, isStandalone) ==
    IF isStandalone
    THEN PageHead \o HurlCss \o PageMid \o body \o PageTail
    ELSE body

---------------------------------------------------------------------------
(* Document trees                                                          *)

WS(v) == [value |-> v]
LT(space, comment, newline) ==
    [space0 |-> WS(space), comment |-> comment, newline |-> WS(newline)]
Eol == LT("", None, "\n")
Remark(t) == Some([value |-> t])

Lit(value, source) == [type |-> "String", value |-> value, source |-> source]
Hole(name) ==
    [type |-> "Placeholder",
     value |-> [space0 |-> WS(""), expr |-> name, space1 |-> WS("")]]

\* an unquoted template, a quoted one, one with a placeholder, a filename
Tpl(t) == [delimiter |-> None, elements |-> <<Lit(t, t)>>]
Quoted(t) == [delimiter |-> Some("\""), elements |-> <<Lit(t, t)>>]
Mixed(t) == [delimiter |-> None, elements |-> <<Lit(t, t), Hole("x")>>]
\* in a filename a space is written backslash-space
FileTpl(t) ==
    [delimiter |-> None, elements |-> <<Lit(t, replace(t, " ", "\\ "))>>]

KV(t) ==
    [line_terminators |-> <<>>, space0 |-> WS(""), key |-> Tpl("k" \o t),
     space1 |-> WS(""), space2 |-> WS(" "), value |-> Mixed(t),
     line_terminator0 |-> Eol]

FileOf(t) == [space0 |-> WS(""), filename |-> FileTpl(t), space1 |-> WS("")]

BodyOf(bytes, t) ==
    Some([line_terminators |-> <<LT(" ", Remark(t), "\n")>>,
          space0 |-> WS(""), value |-> bytes,
          line_terminator0 |-> LT(" ", Remark(t), "\n")])

\* the JSON object {"k": "\n<t>"}: the member's text begins with a newline,
\* spelled backslash-n in the source
JsonOf(t) ==
    [type |-> "Object", space0 |-> "",
     elements |->
         <<[space0 |-> "", name |-> Quoted("k"), space1 |-> "",
            space2 |-> " ",
            value |-> [type |-> "String",
                       value |-> [delimiter |-> Some("\""),
                                  elements |-> <<Lit("\n" \o t, "\\n" \o t)>>]],
            space3 |-> ""]>>]

\* the multiline string whose body is the line t
MultilineOf(t) ==
    [attributes |-> <<>>, space |-> WS(""), newline |-> WS("\n"),
     kind |-> [type |-> "Text", value |-> Tpl(t \o "\n")]]

\* A TLA+ string cannot hold a backquote: the backquote of a one-line string
\* and the fence of a multiline string are written with ' here.
BytesOf(type, t) ==
    CASE type = "Base64" ->
             [type |-> type,
              value |-> [space0 |-> WS(""), source |-> "YQ==",
                         space1 |-> WS("")]]
      [] type = "File" -> [type |-> type, value |-> FileOf(t)]
      [] type = "Hex" ->
             [type |-> type,
              value |-> [space0 |-> WS(" "), source |-> "ff",
                         space1 |-> WS("")]]
      [] type = "OnelineString" ->
             [type |-> type,
              value |-> [delimiter |-> Some("'"), elements |-> <<Lit(t, t)>>]]
      [] type = "Json" -> [type |-> type, value |-> JsonOf(t)]
      [] type = "MultilineString" ->
             [type |-> type, value |-> MultilineOf(t)]
      [] type = "Xml" -> [type |-> type, value |-> "<a>" \o t \o "</a>"]

BytesTypes ==
    <<"Base64", "File", "Hex", "OnelineString", "Json", "MultilineString",
      "Xml">>

RegexValueOf(kind, t) ==
    IF kind = "Template" THEN [type |-> "Template", value |-> Quoted(t)]
    ELSE [type |-> "Regex", value |-> [source |-> "/a+/"]]

CookiePathOf(t, withAttribute) ==
    [name |-> Tpl(t),
     attribute |->
         IF withAttribute
         THEN Some([space0 |-> WS(" "), name |-> [value |-> "Path"],
                    space1 |-> WS(" ")])
         ELSE None]

QueryOf(type, t) ==
    CASE type \in {"Header", "Variable"} ->
             [type |-> type, space0 |-> WS(" "), name |-> Quoted(t)]
      [] type = "Cookie" ->
             [type |-> type, space0 |-> WS(" "),
              expr |-> CookiePathOf(t, TRUE)]
      [] type \in {"Xpath", "Jsonpath"} ->
             [type |-> type, space0 |-> WS(" "), expr |-> Quoted(t)]
      [] type = "Regex" ->
             [type |-> type, space0 |-> WS(" "),
              value |-> RegexValueOf("Regex", t)]
      [] type = "Certificate" ->
             [type |-> type, space0 |-> WS(" "),
              attribute_name |-> "Subject"]
      [] OTHER -> [type |-> type]

QueryTypes ==
    <<"Header", "Cookie", "Xpath", "Jsonpath", "Regex", "Variable",
      "Certificate", "Status", "Version", "Url", "Body", "Duration", "Bytes",
      "Sha256", "Md5", "Ip", "Redirects">>

FilterOf(type, t) ==
    CASE type = "Decode" ->
             [type |-> type, space0 |-> WS(" "), encoding |-> Quoted(t)]
      [] type \in {"Format", "ToDate"} ->
             [type |-> type, space0 |-> WS(" "), fmt |-> Quoted(t)]
      [] type \in {"JsonPath", "XPath"} ->
             [type |-> type, space0 |-> WS(" "), expr |-> Quoted(t)]
      [] type = "Nth" ->
             [type |-> type, space0 |-> WS(" "), n |-> [source |-> "2"]]
      [] type = "Regex" ->
             [type |-> type, space0 |-> WS(" "),
              value |-> RegexValueOf("Template", t)]
      [] type = "Replace" ->
             [type |-> type, space0 |-> WS(" "), old_value |-> Quoted(t),
              space1 |-> WS(" "), new_value |-> Quoted("b")]
      [] type = "ReplaceRegex" ->
             [type |-> type, space0 |-> WS(" "),
              pattern |-> RegexValueOf("Regex", t),
              space1 |-> WS(" "), new_value |-> Quoted(t)]
      [] type = "Split" ->
             [type |-> type, space0 |-> WS(" "), sep |-> Quoted(t)]
      [] type = "UrlQueryParam" ->
             [type |-> type, space0 |-> WS(" "), param |-> Quoted(t)]
      [] OTHER -> [type |-> type]

FilterTypes ==
    <<"Decode", "Format", "JsonPath", "Nth", "Regex", "Replace",
      "ReplaceRegex", "Split", "ToDate", "UrlQueryParam", "XPath",
      "Base64Decode", "Base64Encode", "Base64UrlSafeDecode",
      "Base64UrlSafeEncode", "Count", "DaysAfterNow", "DaysBeforeNow",
      "First", "HtmlEscape", "HtmlUnescape", "Last", "Location", "ToFloat",
      "ToHex", "ToInt", "ToString", "UrlDecode", "UrlEncode">>

PredicateValueOf(type, t) ==
    CASE type = "String" -> [type |-> type, value |-> Quoted(t)]
      [] type = "MultilineString" ->
             [type |-> type, value |-> MultilineOf(t)]
      [] type = "Number" -> [type |-> type, value |-> [source |-> "+1.50"]]
      [] type = "Bool" -> [type |-> type, value |-> TRUE]
      [] type = "File" -> [type |-> type, value |-> FileOf(t)]
      [] type = "Hex" ->
             [type |-> type,
              value |-> [space0 |-> WS(""), source |-> "0a",
                         space1 |-> WS(" ")]]
      [] type = "Base64" ->
             [type |-> type,
              value |-> [space0 |-> WS(" "), source |-> "YQ==",
                         space1 |-> WS("")]]
      [] type = "Placeholder" ->
             [type |-> type,
              value |-> [space0 |-> WS(" "), expr |-> "v", space1 |-> WS("")]]
      [] type = "Null" -> [type |-> type]
      [] type = "Regex" -> [type |-> type, value |-> [source |-> "/a+/"]]

PredicateValueTypes ==
    <<"String", "MultilineString", "Number", "Bool", "File", "Hex",
      "Base64", "Placeholder", "Null", "Regex">>

PredicateFuncOf(type, value) ==
    IF type \in PredicateWithValue
    THEN [type |-> type, space0 |-> WS(" "), value |-> value]
    ELSE [type |-> type]

PredicateTypes ==
    <<"Equal", "NotEqual", "GreaterThan", "GreaterThanOrEqual", "LessThan",
      "LessThanOrEqual", "StartWith", "EndWith", "Contain", "Include",
      "Match", "IsInteger", "IsFloat", "IsBoolean", "IsString",
      "IsCollection", "IsDate", "IsIsoDate", "Exist", "IsEmpty", "IsNumber",
      "IsIpv4", "IsIpv6">>

PredicateOf(negated, func) ==
    [not |-> negated, space0 |-> WS(IF negated THEN " " ELSE ""),
     predicate_func |-> [value |-> func]]

AssertOf(query, filters, predicate) ==
    [line_terminators |-> <<>>, space0 |-> WS(""),
     query |-> [value |-> query], filters |-> filters, space1 |-> WS(" "),
     predicate |-> predicate, line_terminator0 |-> Eol]

CaptureOf(t, query, filters, redact) ==
    [line_terminators |-> <<>>, space0 |-> WS(""), name |-> Tpl("c" \o t),
     space1 |-> WS(""), space2 |-> WS(" "), query |-> [value |-> query],
     filters |-> filters, space3 |-> WS(IF redact THEN " " ELSE ""),
     redact |-> redact, line_terminator0 |-> Eol]

CookieOf(t) ==
    [line_terminators |-> <<>>, space0 |-> WS(""), name |-> Tpl("n" \o t),
     space1 |-> WS(""), space2 |-> WS(" "), value |-> Tpl(t),
     line_terminator0 |-> Eol]

FileParamOf(t, withType) ==
    [line_terminators |-> <<>>, space0 |-> WS(""), key |-> Tpl("f" \o t),
     space1 |-> WS(""), space2 |-> WS(" "),
     value |-> [space0 |-> WS(""), filename |-> FileTpl(t),
                space1 |-> WS(""),
                space2 |-> WS(IF withType THEN " " ELSE ""),
                content_type |-> IF withType THEN Some(Tpl(t)) ELSE None],
     line_terminator0 |-> Eol]

Exists == PredicateOf(FALSE, PredicateFuncOf("Exist", <<>>))

Ph(name) == [space0 |-> WS(""), expr |-> name, space1 |-> WS("")]

VariableValueOf(form, t) ==
    CASE form = 1 -> [type |-> "String", value |-> Quoted(t)]
      [] form = 2 -> [type |-> "Null"]
      [] form = 3 -> [type |-> "Bool", value |-> FALSE]
      [] OTHER -> [type |-> "Number", value |-> [source |-> "1e3"]]

\* the value of an option of kind `type`; form picks among the shapes the
\* kind's value can take (a literal, a placeholder, ...)
OptionValueOf(type, form, t) ==
    CASE type \in {"AwsSigV4", "ConnectTo", "Header", "PinnedPublicKey",
                   "Proxy", "Resolve", "User"} -> Tpl(t)
      [] type \in {"CaCertificate", "ClientCert", "ClientKey", "NetRcFile",
                   "Output", "UnixSocket"} -> FileTpl("f" \o t)
      [] type \in {"ConnectTimeout", "Delay", "MaxTime", "RetryInterval"} ->
             CASE form = 1 ->
                      [type |-> "Literal",
                       value |-> [value |-> [source |-> "5"],
                                  unit |-> Some("ms")]]
               [] form = 2 ->
                      [type |-> "Literal",
                       value |-> [value |-> [source |-> "5"], unit |-> None]]
               [] OTHER -> [type |-> "Placeholder", value |-> Ph("d")]
      [] type = "LimitRate" ->
             IF form = 1
             THEN [type |-> "Literal", value |-> [source |-> "1000"]]
             ELSE [type |-> "Placeholder", value |-> Ph("n")]
      [] type \in {"MaxRedirect", "Repeat", "Retry"} ->
             CASE form = 1 ->
                      [type |-> "Literal",
                       value |-> [type |-> "Finite", n |-> 10]]
               [] form = 2 ->
                      [type |-> "Literal", value |-> [type |-> "Infinite"]]
               [] OTHER -> [type |-> "Placeholder", value |-> Ph("c")]
      [] type = "Variable" ->
             [name |-> "v", space0 |-> WS(""), space1 |-> WS(""),
              value |-> VariableValueOf(form, t)]
      [] OTHER ->
             IF form = 1 THEN [type |-> "Literal", value |-> TRUE]
             ELSE [type |-> "Placeholder", value |-> Ph("b")]

OptionOf(type, form, t) ==
    [line_terminators |-> <<LT("", None, "\n")>>, space0 |-> WS(" "),
     kind |-> [type |-> type, value |-> OptionValueOf(type, form, t)],
     space1 |-> WS(""), space2 |-> WS(" "), line_terminator0 |-> Eol]

OptionTypes ==
    <<"AwsSigV4", "CaCertificate", "ClientCert", "ClientKey", "Compressed",
      "ConnectTo", "ConnectTimeout", "Delay", "FollowLocation",
      "FollowLocationTrusted", "Header", "Http10", "Http11", "Http2",
      "Http3", "Insecure", "IpV4", "IpV6", "LimitRate", "MaxRedirect",
      "MaxTime", "NetRc", "NetRcFile", "NetRcOptional", "Output", "PathAsIs",
      "PinnedPublicKey", "Proxy", "Repeat", "Resolve", "Retry",
      "RetryInterval", "Skip", "UnixSocket", "User", "Variable", "Verbose",
      "VeryVerbose">>

\* the kinds whose value has more than one shape, with the other shapes
OptionForms ==
    <<<<"Compressed", 2>>, <<"Delay", 2>>, <<"Delay", 3>>,
      <<"LimitRate", 2>>, <<"MaxRedirect", 2>>, <<"Repeat", 3>>,
      <<"Variable", 2>>, <<"Variable", 3>>, <<"Variable", 4>>>>

SectionOf(type, short, items) ==
    [line_terminators |-> <<>>, space0 |-> WS(""),
     line_terminator0 |-> Eol,
     value |-> [type |-> type, short |-> short, items |-> items]]

RequestOf(t, lts, headers, sections, body) ==
    [line_terminators |-> lts, space0 |-> WS(" "), method |-> "GET",
     space1 |-> WS(" "), url |-> Tpl("http://h/" \o t),
     line_terminator0 |-> Eol, headers |-> headers, sections |-> sections,
     body |-> body]

ResponseWith(headers, sections, body) ==
    [line_terminators |-> <<LT("", None, "\n")>>, space0 |-> WS(" "),
     version |-> [value |-> "VersionAny"], space1 |-> WS(" "),
     status |-> [value |-> [type |-> "Specific", n |-> 200]],
     line_terminator0 |-> Eol, headers |-> headers, sections |-> sections,
     body |-> body]

ResponseOf(sections, body) == ResponseWith(<<>>, sections, body)

\* an entry with sections in its request only
InRequest(t, sections, body) ==
    [request |-> RequestOf(t, <<>>, <<>>, sections, body), response |-> None]

\* an entry with sections in its response
InResponse(t, sections) ==
    [request |-> RequestOf(t, <<>>, <<>>, <<>>, None),
     response |-> Some(ResponseOf(sections, None))]

AssertEntry(t, query, filters, predicate) ==
    InResponse(t, <<SectionOf("Asserts", FALSE,
                              <<AssertOf(query, filters, predicate)>>)>>)

\* one entry for every variant of every tagged node family
VariantEntries(t) ==
    [i \in 1..Len(QueryTypes) |->
         AssertEntry(t, QueryOf(QueryTypes[i], t), <<>>, Exists)]
    \o [i \in 1..Len(FilterTypes) |->
            AssertEntry(t, QueryOf("Body", t),
                        <<<<WS(" "), [value |-> FilterOf(FilterTypes[i], t)]>>>>,
                        Exists)]
    \o [i \in 1..Len(PredicateTypes) |->
            AssertEntry(t, QueryOf("Status", t), <<>>,
                        PredicateOf(i % 2 = 0,
                                    PredicateFuncOf(PredicateTypes[i],
                                        PredicateValueOf("Number", t))))]
    \o [i \in 1..Len(PredicateValueTypes) |->
            AssertEntry(t, QueryOf("Body", t), <<>>,
                        PredicateOf(FALSE,
                                    PredicateFuncOf("Equal",
                                        PredicateValueOf(PredicateValueTypes[i],
                                                         t))))]
    \o [i \in 1..Len(BytesTypes) |->
            InRequest(t, <<>>, BodyOf(BytesOf(BytesTypes[i], t), t))]
    \o [i \in 1..Len(OptionTypes) |->
            InRequest(t, <<SectionOf("Options", FALSE,
                                     <<OptionOf(OptionTypes[i], 1, t)>>)>>,
                      None)]
    \o [i \in 1..Len(OptionForms) |->
            InRequest(t, <<SectionOf("Options", FALSE,
                                     <<OptionOf(OptionForms[i][1],
                                                OptionForms[i][2], t)>>)>>,
                      None)]
    \o <<InRequest(t, <<SectionOf("QueryParams", TRUE, <<KV(t), KV("b")>>)>>,
                   None),
         InRequest(t, <<SectionOf("QueryParams", FALSE, <<KV(t)>>)>>, None),
         InRequest(t, <<SectionOf("BasicAuth", FALSE, <<KV(t)>>)>>, None),
         InRequest(t, <<SectionOf("BasicAuth", FALSE, <<>>)>>, None),
         InRequest(t, <<SectionOf("FormParams", TRUE, <<KV(t)>>)>>, None),
         InRequest(t, <<SectionOf("FormParams", FALSE, <<>>)>>, None),
         InRequest(t, <<SectionOf("MultipartFormData", TRUE,
                         <<[type |-> "Param", value |-> KV(t)],
                           [type |-> "FilenameParam",
                            value |-> FileParamOf(t, TRUE)]>>)>>, None),
         InRequest(t, <<SectionOf("MultipartFormData", FALSE,
                         <<[type |-> "FilenameParam",
                            value |-> FileParamOf(t, FALSE)]>>)>>, None),
         InRequest(t, <<SectionOf("Cookies", FALSE, <<CookieOf(t)>>)>>, None),
         InResponse(t, <<SectionOf("Captures", FALSE,
                         <<CaptureOf(t, QueryOf("Regex", t), <<>>, FALSE),
                           CaptureOf(t,
                               [type |-> "Cookie", space0 |-> WS(" "),
                                expr |-> CookiePathOf("s" \o t, FALSE)],
                               <<>>, TRUE)>>)>>),
         AssertEntry(t, [type |-> "Regex", space0 |-> WS(" "),
                         value |-> RegexValueOf("Template", t)],
                     <<<<WS(" "), [value |-> FilterOf("Count", t)]>>,
                       <<WS(" "), [value |-> FilterOf("Nth", t)]>>>>,
                     Exists)>>

\* entries whose literals all hold the text t: comments, URL, header,
\* filenames, cookie name, payloads
CoreEntries(t) ==
    <<[request |-> RequestOf(t, <<LT("", Remark(t), "\n")>>, <<KV(t)>>,
                             <<>>, None),
       response |-> None],
      [request |->
           RequestOf(t, <<>>, <<>>,
               <<SectionOf("Options", FALSE,
                           <<OptionOf("Output", 1, t),
                             OptionOf("User", 1, t)>>)>>,
               BodyOf(BytesOf("File", "f" \o t), t)),
       response |->
           Some(ResponseOf(
               <<SectionOf("Captures", FALSE,
                     <<CaptureOf(t, [type |-> "Cookie", space0 |-> WS(" "),
                                     expr |-> CookiePathOf("s" \o t, TRUE)],
                                 <<<<WS(" "),
                                     [value |-> FilterOf("Replace", t)]>>>>,
                                 TRUE)>>)>>,
               BodyOf(BytesOf("Xml", t), t)))],
      [request |->
           RequestOf(t, <<LT(" ", None, "\n")>>, <<KV(t), KV("y")>>,
               <<SectionOf("MultipartFormData", FALSE,
                           <<[type |-> "FilenameParam",
                              value |-> FileParamOf(t, TRUE)]>>),
                 SectionOf("Cookies", FALSE, <<CookieOf(t)>>)>>,
               BodyOf(BytesOf("Json", t), t)),
       response |->
           Some(ResponseWith(
               <<KV(t)>>,
               <<SectionOf("Asserts", FALSE,
                     <<AssertOf(QueryOf("Header", t), <<>>,
                                PredicateOf(TRUE,
                                    PredicateFuncOf("LessThanOrEqual",
                                        PredicateValueOf("String", t))))>>)>>,
               BodyOf(BytesOf("MultilineString", t), t)))]>>

DocFrags == {"a b", "<&>", "&amp;"}
DocTexts == TextsOf(DocFrags, MaxDocFrags)

\* the text of the literals of the entries that vary the node kind
PlainText == "a<b"

\* a file of n entries, taken in turn from `entries` starting at the k-th
HurlFileOf(entries, k, n, t) ==
    [entries |-> [j \in 1..n |-> entries[((k + j - 2) % Len(entries)) + 1]],
     line_terminators |-> <<LT("", Remark(t), "\n"), LT(" ", None, "")>>]

NumCore == Len(CoreEntries(PlainText))
NumVariants == Len(VariantEntries(PlainText))

CoreDoc(t, k, n) == HurlFileOf(CoreEntries(t), k, n, t)
VariantDoc(k) == HurlFileOf(VariantEntries(PlainText), k, 1, PlainText)

---------------------------------------------------------------------------
(* format: one call per member of procs, each with its own HtmlFormatter   *)

NoEscapeCall == input = "" /\ output = "" /\ phase = "none"

Idle ==
    /\ pc = [p \in procs |-> "idle"]
    /\ todo = [p \in procs |-> <<>>]
    /\ buffer = [p \in procs |-> ""]
    /\ log = [p \in procs |-> <<>>]
    /\ result = [p \in procs |-> ""]
    /\ runs = [p \in procs |-> 0]
    /\ NoEscapeCall

\* one call of format, on any document and either value of standalone
Init ==
    /\ procs = {1}
    /\ \/ \E t \in DocTexts, n \in 0..MaxEntries, k \in 1..NumCore :
              doc = [p \in procs |-> CoreDoc(t, k, n)]
       \/ \E k \in 1..NumVariants : doc = [p \in procs |-> VariantDoc(k)]
    /\ standalone \in [procs -> BOOLEAN]
    /\ Idle

\* let mut fmt = HtmlFormatter::new(); fmt.fmt_hurl_file(hurl_file) begins
Format(p) ==
    /\ pc[p] = "idle"
    /\ buffer' = [buffer EXCEPT ![p] = ""]
    /\ todo' = [todo EXCEPT ![p] = fmt_hurl_file(doc[p])]
    /\ log' = [log EXCEPT ![p] = <<>>]
    /\ runs' = [runs EXCEPT ![p] = @ + 1]
    /\ pc' = [pc EXCEPT ![p] = "running"]
    /\ UNCHANGED <<procs, doc, standalone, result, escVars>>

\* the next buffer operation of fmt_hurl_file
Step(p) ==
    /\ pc[p] = "running"
    /\ todo[p] # <<>>
    /\ LET o == Head(todo[p])
       IN  /\ buffer' = [buffer EXCEPT ![p] =
                             CASE o.op = "clear" -> ""
                               [] o.op = "push" -> @ \o o.text
                               [] OTHER -> @]
           /\ pc' = [pc EXCEPT ![p] =
                         IF o.op = "panic" THEN "panicked" ELSE @]
           /\ log' = [log EXCEPT ![p] = Append(@, o)]
    /\ todo' = [todo EXCEPT ![p] = Tail(@)]
    /\ UNCHANGED <<procs, doc, standalone, result, runs, escVars>>

\* fmt_hurl_file has returned &self.buffer; format returns
Return(p) ==
    /\ pc[p] = "running"
    /\ todo[p] = <<>>
    /\ result' = [result EXCEPT ![p] = format_result(buffer[p], standalone[p])]
    /\ pc' = [pc EXCEPT ![p] = "done"]
    /\ UNCHANGED <<procs, doc, standalone, todo, buffer, log, runs, escVars>>

Next == \E p \in procs : Format(p) \/ Step(p) \/ Return(p)

Spec == Init /\ [][Next]_vars

\* a call of format is a function call: once begun, the thread that makes
\* it keeps executing it until it returns
FairSpec == Spec /\ \A p \in {1} : WF_vars(Step(p)) /\ WF_vars(Return(p))

---------------------------------------------------------------------------
(* Reading a rendered fragment back                                        *)

SpanClasses ==
    {"base64", "boolean", "comment", "entry", "expr", "filename",
     "filter-type", "hex", "json", "method", "multiline", "not", "null",
     "number", "predicate-type", "query-type", "regex", "request",
     "response", "section-header", "string", "unit", "url", "version",
     "xml"}

\* the tags fmt_pre_open, fmt_pre_close, fmt_span_open, fmt_span_close and
\* fmt_span write
RendererTags ==
    {"<pre><code class=\"language-hurl\">", "</code></pre>", SpanCloseTag}
        \cup {SpanOpenTag(c) : c \in SpanClasses}

\* length of the renderer tag that starts at s[i], 0 if none does
TagLenAt(s, i) ==
    IF Char(s, i) # "<" THEN 0
    ELSE LET ts == {t \in RendererTags : StartsWithAt(s, i, t)}
         IN  IF ts = {} THEN 0 ELSE Len(CHOOSE t \in ts : TRUE)

\* s with every renderer tag removed
StripTags(s) ==
    LET tagLen == [i \in 1..Len(s) |-> TagLenAt(s, i)]
        inTag(i) == \E j \in 1..i : j > i - 40 /\ tagLen[j] > i - j
    IN  Join([i \in 1..Len(s) |-> IF inTag(i) THEN "" ELSE Char(s, i)])

\* the character an entity of escape_xml stands for
EntityChar(e) ==
    CASE e = "&amp;" -> "&"
      [] e = "&lt;" -> "<"
      [] e = "&gt;" -> ">"

\* the entity that starts at s[i], "" if none does
EntityAt(s, i) ==
    IF Char(s, i) # "&" THEN ""
    ELSE LET es == {e \in {"&amp;", "&lt;", "&gt;"} : StartsWithAt(s, i, e)}
         IN  IF es = {} THEN "" ELSE CHOOSE e \in es : TRUE

\* s with every entity replaced by its character, in one pass
Unescape(s) ==
    LET ent == [i \in 1..Len(s) |-> EntityAt(s, i)]
        inEntity(i) == \E j \in 1..(i - 1) : j > i - 5 /\ Len(ent[j]) > i - j
    IN  Join([i \in 1..Len(s) |->
                  IF ent[i] # "" THEN EntityChar(ent[i])
                  ELSE IF inEntity(i) THEN "" ELSE Char(s, i)])

\* the source text of the nodes rendered by the operations performed
SourceText(p) == SourceOf(log[p])

\* some literal of the document was pushed without escape_xml although it
\* holds an entity
RawEntity(p) ==
    \E i \in 1..Len(log[p]) :
        /\ log[p][i].esc = 0
        /\ log[p][i].origin = "template"
        /\ Unescape(log[p][i].val) # log[p][i].val

---------------------------------------------------------------------------
(* C1: round trip                                                          *)

\* C1: once a fragment (standalone = false) has been rendered, removing
\* the renderer's tags and un-escaping the entities gives back the source
\* text of the document, character for character.
C1_RoundTrip ==
    \A p \in procs :
        (pc[p] = "done" /\ ~standalone[p])
            => Unescape(StripTags(result[p])) = SourceText(p)

\* C1 for the documents none of whose unescaped literals holds an entity
C1_RoundTripEscaped ==
    \A p \in procs :
        (pc[p] = "done" /\ ~standalone[p] /\ ~RawEntity(p))
            => Unescape(StripTags(result[p])) = SourceText(p)

---------------------------------------------------------------------------
(* C3: escaped exactly once                                                *)

\* the operation renders a literal the renderer escapes: a template in a
\* "string" span, the request URL, a comment, a multiline string, a JSON
\* or an XML body
EscapedLiteral(o) ==
    \/ o.class \in {"url", "comment", "multiline", "json", "xml"}
    \/ o.class = "string" /\ o.origin = "template"

\* C3: every literal the renderer escapes (template source text, request
\* URL, comment text, multiline-string, JSON and XML source) goes through
\* escape_xml exactly once: what is written is escape_xml of its source
\* text, and "&amp;amp;" is written only where the source text holds
\* "&amp;".  (Each operation is examined in the state it leads to, where it
\* is the last of the log.)
C3_EscapedOnce ==
    \A p \in procs :
        /\ \A k \in DOMAIN log[p] \cap {Len(log[p])} :
               LET o == log[p][k]
               IN  /\ o.esc <= 1
                   /\ EscapedLiteral(o) =>
                          (o.esc = 1 /\ o.val = escape_xml(o.src))
                   /\ Contains(o.text, "&amp;amp;") =>
                          Contains(o.src, "&amp;")
        /\ (pc[p] = "done" /\ Contains(result[p], "&amp;amp;"))
               => Contains(SourceText(p), "&amp;")

\* a render has finished whose output holds "&amp;amp;", written for an
\* escaped literal whose source text holds "&amp;"
C3_Witness ==
    \E p \in procs :
        /\ pc[p] = "done"
        /\ Contains(result[p], "&amp;amp;")
        /\ \E k \in DOMAIN log[p] :
               LET o == log[p][k]
               IN  /\ EscapedLiteral(o)
                   /\ o.esc = 1
                   /\ Contains(o.src, "&amp;")
                   /\ Contains(o.text, "&amp;amp;")

---------------------------------------------------------------------------
(* C5: unescaped appends                                                   *)

\* C5: text drawn from a Template or a Comment never reaches the buffer
\* without passing through escape_xml; what is appended unescaped is
\* grammar, whitespace, newlines and the like.
C5_RawOnlyGrammar ==
    \A p \in procs :
        \A k \in DOMAIN log[p] :
            (log[p][k].op = "push"
                 /\ log[p][k].origin \in {"template", "comment"})
                => log[p][k].esc >= 1

\* C5 for the text drawn from a Comment alone
C5_CommentsEscaped ==
    \A p \in procs :
        \A k \in DOMAIN log[p] :
            (log[p][k].op = "push" /\ log[p][k].origin = "comment")
                => log[p][k].esc >= 1

---------------------------------------------------------------------------
(* C6: label fidelity                                                      *)

\* identifier() of variant `variant` of the node family fam
IdentifierOf(fam, variant) ==
    CASE fam = "Query" -> QueryIdentifier[variant]
      [] fam = "Filter" -> FilterIdentifier[variant]
      [] fam = "Predicate" -> PredicateIdentifier[variant]
      [] fam = "Option" -> OptionIdentifier[variant]

LabelClass(fam) ==
    CASE fam = "Query" -> "query-type"
      [] fam = "Filter" -> "filter-type"
      [] fam = "Predicate" -> "predicate-type"
      [] fam = "Option" -> "string"

\* the operation that writes the label of a node
IsLabel(o) == o.role = "label" /\ o.origin = "label"

\* log[p][i] belongs to the same node as the operation before it
SameNode(p, i) ==
    /\ i > 1
    /\ log[p][i - 1].role # ""
    /\ log[p][i - 1].fam = log[p][i].fam
    /\ log[p][i - 1].of = log[p][i].of

\* the label of log[p][i] stands in a span of the class of its family
InLabelSpan(p, i) ==
    LET o == log[p][i]
    IN  \/ o.class = LabelClass(o.fam)
        \/ /\ o.class = ""
           /\ i > 1
           /\ log[p][i - 1].text = SpanOpenTag(LabelClass(o.fam))
           /\ i < Len(log[p]) => log[p][i + 1].text = SpanCloseTag

\* C6 as stated: the label of every Query, Filter, PredicateFunc and
\* EntryOption node is exactly identifier() of its variant, nothing of the
\* node (whitespace or payload) is written before it, and it does not
\* depend on the payload.
C6_Original ==
    \A p \in procs :
        \A i \in 1..Len(log[p]) :
            LET o == log[p][i]
            IN  /\ IsLabel(o) =>
                       (InLabelSpan(p, i) /\ o.val = IdentifierOf(o.fam, o.of))
                /\ o.role \in {"lead", "payload"} =>
                       (SameNode(p, i)
                            /\ log[p][i - 1].role \in {"label", "payload"})

\* C6: the label of a Query, Filter or EntryOption node is identifier() of
\* its variant and the label of a PredicateFunc node is
\* encode_html(identifier()) ('<' and '>' written as entities); the label
\* is written before the payload of the node, and before any whitespace of
\* a Query, Filter or PredicateFunc node, while an EntryOption writes its
\* leading line terminators and space0 first; the label is the same
\* whatever the payload.
C6_LabelFidelity ==
    \A p \in procs :
        \A i \in 1..Len(log[p]) :
            LET o == log[p][i]
            IN  /\ IsLabel(o) =>
                       /\ InLabelSpan(p, i)
                       /\ o.val = IF o.fam = "Predicate"
                                  THEN encode_html(IdentifierOf(o.fam, o.of))
                                  ELSE IdentifierOf(o.fam, o.of)
                       /\ \A j \in 1..Len(log[p]) :
                              (IsLabel(log[p][j]) /\ log[p][j].fam = o.fam
                                   /\ log[p][j].of = o.of)
                                  => log[p][j].val = o.val
                /\ o.role = "payload" =>
                       (SameNode(p, i)
                            /\ log[p][i - 1].role \in {"label", "payload"})
                /\ o.role = "lead" =>
                       /\ o.fam = "Option"
                       /\ o.origin \in {"space", "comment", "newline"}
                       /\ i < Len(log[p]) =>
                              /\ log[p][i + 1].fam = "Option"
                              /\ log[p][i + 1].of = o.of
                              /\ log[p][i + 1].role \in {"lead", "label"}

\* a predicate label with an entity in it ("&lt;" for "<") has been
\* written, and its payload after it
C6_Witness ==
    \E p \in procs :
        \E i \in 2..(Len(log[p]) - 2) :
            LET o == log[p][i]
            IN  /\ IsLabel(o)
                /\ o.fam = "Predicate"
                /\ o.val # IdentifierOf(o.fam, o.of)
                /\ o.val = encode_html(IdentifierOf(o.fam, o.of))
                /\ log[p][i + 2].role = "payload"

\* an option name has been written after the option's leading whitespace
\* and before its payload
C6_WitnessOption ==
    \E p \in procs :
        \E i \in 2..(Len(log[p]) - 1) :
            /\ IsLabel(log[p][i])
            /\ log[p][i].fam = "Option"
            /\ log[p][i - 1].role = "lead"
            /\ log[p][i + 1].role = "payload"

\* a query label and a filter label have been written, each with a payload
C6_WitnessFamilies ==
    \E p \in procs :
        \A fam \in {"Query", "Filter"} :
            \E i \in 1..(Len(log[p]) - 1) :
                /\ IsLabel(log[p][i])
                /\ log[p][i].fam = fam
                /\ log[p][i].val = IdentifierOf(fam, log[p][i].of)
                /\ log[p][i + 1].role = "payload"

---------------------------------------------------------------------------
(* C7: emission order                                                      *)

\* where an operation stands in the physical order of the file: the
\* position of its entry, of the side of the entry, of the child of the
\* request or response, and of the member of a sequence
FileRank(p, o) ==
    CASE o.side = "clear" -> 0
      [] o.side = "pre_open" -> 1
      [] o.side \in {"entry", "request", "response", "entry_end"} ->
             1 + o.ent
      [] o.side = "line_terminators" -> Len(doc[p].entries) + 2
      [] o.side = "pre_close" -> Len(doc[p].entries) + 3

SideRank(o) ==
    CASE o.side = "request" -> 1
      [] o.side = "response" -> 2
      [] o.side = "entry_end" -> 3
      [] OTHER -> 0

PartRank(o) ==
    CASE o.part = "line_terminators" -> 1
      [] o.part = "space0" -> 2
      [] o.part \in {"method", "version"} -> 3
      [] o.part = "space1" -> 4
      [] o.part \in {"url", "status"} -> 5
      [] o.part = "line_terminator0" -> 6
      [] o.part = "headers" -> 7
      [] o.part = "sections" -> 8
      [] o.part = "body" -> 9
      [] o.part = "close" -> 10
      [] OTHER -> 0

Rank(p, o) == <<FileRank(p, o), SideRank(o), PartRank(o), o.idx>>

\* a comes before b, or is b, in the lexicographic order
LexLeq(a, b) ==
    \/ a = b
    \/ \E k \in 1..Len(a) :
           /\ a[k] < b[k]
           /\ \A j \in 1..(k - 1) : a[j] = b[j]

\* what call p has written for child `part` (member idx) of `side` of
\* entry ent
ChildText(p, ent, side, part, idx) ==
    TextOf(SelectSeq(log[p],
                     LAMBDA o : /\ o.ent = ent /\ o.side = side
                                /\ o.part = part /\ o.idx = idx))

\* what call p has written for the trailing line terminators of the file
TrailingText(p) ==
    TextOf(SelectSeq(log[p], LAMBDA o : o.side = "line_terminators"))

\* the children of a request or response r have each been written once;
\* first is its method or version, second its URL or status
ChildrenWritten(p, ent, side, r, first, firstText, second, secondText) ==
    /\ ChildText(p, ent, side, "line_terminators", 0)
           = TextOf(fmt_lts(r.line_terminators))
    /\ ChildText(p, ent, side, "space0", 0) = TextOf(fmt_space(r.space0))
    /\ ChildText(p, ent, side, first, 0) = firstText
    /\ ChildText(p, ent, side, "space1", 0) = TextOf(fmt_space(r.space1))
    /\ ChildText(p, ent, side, second, 0) = secondText
    /\ ChildText(p, ent, side, "line_terminator0", 0)
           = TextOf(fmt_lt(r.line_terminator0))
    /\ \A j \in 1..Len(r.headers) :
           ChildText(p, ent, side, "headers", j) = TextOf(fmt_kv(r.headers[j]))
    /\ \A j \in 1..Len(r.sections) :
           ChildText(p, ent, side, "sections", j)
               = TextOf(fmt_section(r.sections[j]))
    /\ ChildText(p, ent, side, "body", 0)
           = IF IsSome(r.body) THEN TextOf(fmt_body(r.body[1])) ELSE ""
    /\ \A k \in DOMAIN log[p] :
           LET o == log[p][k]
           IN  (o.ent = ent /\ o.side = side) =>
                   /\ o.part = "headers" => o.idx \in 1..Len(r.headers)
                   /\ o.part = "sections" => o.idx \in 1..Len(r.sections)

UrlText(request) ==
    SpanOpenTag("url") \o escape_xml(template_to_source(request.url))
        \o SpanCloseTag

\* C7: the operations are performed in the physical order of the file
\* (entries in sequence, request before response, trailing line
\* terminators last; in a request or response: leading line terminators,
\* leading whitespace, method or version, whitespace, URL or status,
\* trailing line terminator, headers in sequence, sections in sequence,
\* body), and when the render is done every child has been written exactly
\* once, the response only when present.
C7_PhysicalOrder ==
    \A p \in procs :
        /\ \A i \in 2..Len(log[p]) :
               LexLeq(Rank(p, log[p][i - 1]), Rank(p, log[p][i]))
        /\ pc[p] = "done" =>
               /\ \A k \in DOMAIN log[p] :
                      log[p][k].ent \in 0..Len(doc[p].entries)
               /\ TrailingText(p) = TextOf(fmt_lts(doc[p].line_terminators))
               /\ \A e \in 1..Len(doc[p].entries) :
                      LET entry == doc[p].entries[e]
                          req == entry.request
                      IN  /\ ChildrenWritten(p, e, "request", req,
                                 "method", TextOf(fmt_method(req.method)),
                                 "url", UrlText(req))
                          /\ IF IsSome(entry.response)
                             THEN LET resp == entry.response[1]
                                  IN  ChildrenWritten(p, e, "response", resp,
                                          "version",
                                          TextOf(fmt_version(resp.version)),
                                          "status",
                                          TextOf(fmt_status(resp.status)))
                             ELSE \A k \in DOMAIN log[p] :
                                      ~(log[p][k].ent = e
                                            /\ log[p][k].side = "response")

\* a render is done of a file of two entries or more, one of them with two
\* headers, two sections and a body in its request and a response with a
\* header, a section and a body
C7_Witness ==
    \E p \in procs :
        /\ pc[p] = "done"
        /\ Len(doc[p].entries) >= 2
        /\ \E e \in 1..Len(doc[p].entries) :
               LET entry == doc[p].entries[e]
               IN  /\ Len(entry.request.headers) >= 2
                   /\ Len(entry.request.sections) >= 2
                   /\ IsSome(entry.request.body)
                   /\ IsSome(entry.response)
                   /\ entry.response[1].headers # <<>>
                   /\ entry.response[1].sections # <<>>
                   /\ IsSome(entry.response[1].body)
        /\ \E e \in 1..Len(doc[p].entries) :
               ~IsSome(doc[p].entries[e].response)

---------------------------------------------------------------------------
(* C8: totality                                                            *)

\* no dispatcher of call p has reached an arm that does not exist, and while
\* the call runs it has a step to take
NoFailure(p) ==
    /\ pc[p] \in {"idle", "running", "done"}
    /\ \A k \in DOMAIN log[p] : log[p][k].op # "panic"
    /\ pc[p] = "running" => (ENABLED Step(p) \/ ENABLED Return(p))

\* C8: format is total: no call reaches a panic or an unreachable arm of a
\* dispatcher, and every call that has begun terminates and returns a
\* string.
C8_Total ==
    /\ [](\A p \in procs : NoFailure(p))
    /\ \A p \in {1} :
           (p \in procs /\ pc[p] = "running")
               ~> (pc[p] = "done" /\ Len(result[p]) > 0)

\* format has returned for a file with a Cookies section
C8_Witness ==
    \E p \in procs :
        /\ pc[p] = "done"
        /\ Len(result[p]) > 0
        /\ \E e \in 1..Len(doc[p].entries) :
               \E j \in 1..Len(doc[p].entries[e].request.sections) :
                   LET value == doc[p].entries[e].request.sections[j].value
                   IN  value.type = "Cookies" /\ value.items # <<>>

---------------------------------------------------------------------------
(* C9: fragment and standalone page                                        *)

\* what format(doc[p], false) returns
Fragment(p) == format_result(TextOf(fmt_hurl_file(doc[p])), FALSE)

\* the entries and the trailing line terminators of doc[p], rendered
Inner(p) ==
    TextOf(fmt_entries(doc[p].entries))
        \o TextOf(fmt_lts(doc[p].line_terminators))

\* the text of s between the first `open` and the first `close` after it
Between(s, open, close) ==
    LET starts == {i \in 1..Len(s) : StartsWithAt(s, i, open)}
        from == (CHOOSE i \in starts : \A j \in starts : i <= j) + Len(open)
        ends == {i \in from..Len(s) : StartsWithAt(s, i, close)}
        to == CHOOSE i \in ends : \A j \in ends : i <= j
    IN  IF starts = {} \/ ends = {} THEN "" ELSE SubSeq(s, from, to - 1)

\* C9: format(doc, false) is '<pre><code class="language-hurl">', the
\* rendered entries and trailing line terminators, '</code></pre>';
\* format(doc, true) is a whole HTML page with that same fragment in its
\* <body> and the stylesheet hurl_css() returns in its <style>.
C9_FragmentAndPage ==
    \A p \in procs :
        pc[p] = "done" =>
            /\ Fragment(p) = "<pre><code class=\"language-hurl\">"
                                 \o Inner(p) \o "</code></pre>"
            /\ buffer[p] = Fragment(p)
            /\ ~standalone[p] => result[p] = Fragment(p)
            /\ standalone[p] =>
                   /\ StartsWithAt(result[p], 1, "<!DOCTYPE html>\n<html>\n")
                   /\ StartsWithAt(result[p], Len(result[p]) - 7, "</html>\n")
                   /\ Between(result[p], "<body>\n", "\n    </body>")
                          = Fragment(p)
                   /\ Between(result[p], "<style>\n", "\n        </style>")
                          = hurl_css

\* a standalone page has been returned for a file with entries
C9_Witness ==
    \E p \in procs :
        /\ pc[p] = "done"
        /\ standalone[p]
        /\ doc[p].entries # <<>>
        /\ Contains(result[p], buffer[p])
        /\ Len(result[p]) > Len(buffer[p])

\* a bare fragment has been returned for a file with entries
C9_WitnessFragment ==
    \E p \in procs :
        /\ pc[p] = "done"
        /\ ~standalone[p]
        /\ doc[p].entries # <<>>
        /\ result[p] = buffer[p]

---------------------------------------------------------------------------
(* Two calls at once, and a formatter used again                           *)

ReentrantDocs == {CoreDoc("&", 1, 0), CoreDoc("a b", 1, 1)}

\* two calls of format, each on its own document with its own formatter
InitReentrant ==
    /\ procs = {1, 2}
    /\ doc \in [procs -> ReentrantDocs]
    /\ standalone \in [procs -> BOOLEAN]
    /\ Idle

\* fmt.fmt_hurl_file(hurl_file) on a formatter that has rendered before:
\* the buffer still holds the previous render
Reuse(p) ==
    /\ pc[p] = "done"
    /\ runs[p] < MaxRuns
    /\ \E d \in ReentrantDocs : doc' = [doc EXCEPT ![p] = d]
    /\ todo' = [todo EXCEPT ![p] = fmt_hurl_file(doc'[p])]
    /\ log' = [log EXCEPT ![p] = <<>>]
    /\ result' = [result EXCEPT ![p] = ""]
    /\ runs' = [runs EXCEPT ![p] = @ + 1]
    /\ pc' = [pc EXCEPT ![p] = "running"]
    /\ UNCHANGED <<procs, standalone, buffer, escVars>>

NextReentrant ==
    \E p \in procs : Format(p) \/ Step(p) \/ Return(p) \/ Reuse(p)

SpecReentrant == InitReentrant /\ [][NextReentrant]_vars

---------------------------------------------------------------------------
(* C10: independent renders                                                *)

\* the buffer of a new formatter after the operations ops
RECURSIVE Run(_, _)
Run(buf, ops) ==
    IF ops = <<>> THEN buf
    ELSE Run(CASE Head(ops).op = "clear" -> ""
               [] Head(ops).op = "push" -> buf \o Head(ops).text
               [] OTHER -> buf,
             Tail(ops))

\* what format(d, isStandalone) returns when it runs alone
Alone(d, isStandalone) ==
    format_result(Run("", fmt_hurl_file(d)), isStandalone)

\* C10: whatever the interleaving of the steps of two calls, and whether or
\* not the formatter has rendered before, a call returns the string it
\* returns when run alone, and what it has written so far is what it writes
\* when run alone.
C10_Independent ==
    \A p \in procs :
        /\ pc[p] = "done" => result[p] = Alone(doc[p], standalone[p])
        /\ (pc[p] = "running" /\ log[p] # <<>>) => buffer[p] = Run("", log[p])

\* a formatter used for the second time has returned while the other call
\* is in the middle of rendering another document
C10_Witness ==
    \E p \in procs :
        \E q \in procs \ {p} :
            /\ pc[p] = "done"
            /\ runs[p] = 2
            /\ result[p] # ""
            /\ pc[q] = "running"
            /\ log[q] # <<>>
            /\ todo[q] # <<>>
            /\ doc[q] # doc[p]

---------------------------------------------------------------------------
(* Numbers of the runner (runner/filter/to_float.rs)                       *)
(*                                                                         *)
(* An i64 is its sign and the bits of its magnitude, most significant      *)
(* first (<<>> is zero).  An f64 is one of                                 *)
(*   "finite":  (-1)^neg * mant * 2^exp, mant a bit string of at most 53   *)
(*              bits with no leading and no trailing zero (<<>> is zero),  *)
(*   "nearest": the f64 nearest to (-1)^neg * mant * 10^exp, mant a string *)
(*              of decimal digits, for the decimals that are no such       *)
(*              binary fraction,                                           *)
(*   "inf", "nan".                                                         *)

\* integers of at most this magnitude are drawn as small Integer inputs
MaxMagnitude == 4

\* f64::MANTISSA_DIGITS
MantissaDigits == 53

RECURSIVE BitsOf(_)
BitsOf(n) == IF n = 0 THEN <<>> ELSE Append(BitsOf(n \div 2), n % 2)

RECURSIVE StripLeading(_, _)
StripLeading(ds, z) ==
    IF ds # <<>> /\ Head(ds) = z THEN StripLeading(Tail(ds), z) ELSE ds

RECURSIVE TrailingCount(_, _)
TrailingCount(ds, z) ==
    IF ds # <<>> /\ ds[Len(ds)] = z
    THEN 1 + TrailingCount(SubSeq(ds, 1, Len(ds) - 1), z)
    ELSE 0

StripTrailing(ds, z) == SubSeq(ds, 1, Len(ds) - TrailingCount(ds, z))

\* bits + 1
RECURSIVE Increment(_)
Increment(bits) ==
    IF bits = <<>> THEN <<1>>
    ELSE IF bits[Len(bits)] = 0
         THEN SubSeq(bits, 1, Len(bits) - 1) \o <<1>>
         ELSE Increment(SubSeq(bits, 1, Len(bits) - 1)) \o <<0>>

I64(neg, mag) == [neg |-> neg, mag |-> mag]

\* the i64 of a small integer
IntegerOf(n) == IF n < 0 THEN I64(TRUE, BitsOf(-n)) ELSE I64(FALSE, BitsOf(n))

\* 2^k, 2^k + d and 2^k - 1 as magnitudes
PowerOfTwo(k) == <<1>> \o [j \in 1..k |-> 0]
PowerOfTwoPlus(k, d) ==
    <<1>> \o [j \in 1..(k - Len(BitsOf(d))) |-> 0] \o BitsOf(d)
AllOnes(k) == [j \in 1..k |-> 1]

F64(kind, neg, mant, exp) ==
    [kind |-> kind, neg |-> neg, mant |-> mant, exp |-> exp]

Infinity(neg) == F64("inf", neg, <<>>, 0)
NaN == F64("nan", FALSE, <<>>, 0)

\* the f64 that is exactly (-1)^neg * bits * 2^exp, for at most 53
\* significant bits
Finite(neg, bits, exp) ==
    LET b == StripLeading(bits, 0)
    IN  IF b = <<>> THEN F64("finite", neg, <<>>, 0)
        ELSE F64("finite", neg, StripTrailing(b, 0), exp + TrailingCount(b, 0))

\* `v as f64` for an i64 v: exact up to 53 significant bits, rounded to
\* nearest, ties to even, above
as_f64(v) ==
    LET n == Len(v.mag)
    IN  IF n <= MantissaDigits THEN Finite(v.neg, v.mag, 0)
        ELSE LET top == SubSeq(v.mag, 1, MantissaDigits)
                 rest == SubSeq(v.mag, MantissaDigits + 1, n)
                 sticky == \E j \in 2..Len(rest) : rest[j] = 1
                 up == rest[1] = 1 /\ (sticky \/ top[MantissaDigits] = 1)
             IN  Finite(v.neg, IF up THEN Increment(top) ELSE top,
                        n - MantissaDigits)

\* the integer an f64 is, as an i64 magnitude, when it is one
MagnitudeOf(f) == f.mant \o [j \in 1..f.exp |-> 0]

\* str::parse::<f64>: the Rust grammar
\*   Float  ::= Sign? ( 'inf' | 'infinity' | 'nan' | Number )
\*   Number ::= ( Digit+ | Digit+ '.' Digit* | Digit* '.' Digit+ ) Exp?
\*   Exp    ::= 'e' Sign? Digit+
\* letters in any case, nothing trimmed, nothing else accepted.
Digits == {"0", "1", "2", "3", "4", "5", "6", "7", "8", "9"}

DigitValue(c) == CHOOSE d \in 0..9 : Char("0123456789", d + 1) = c

IsDigits(s) == \A i \in 1..Len(s) : Char(s, i) \in Digits

DigitsOf(s) == [i \in 1..Len(s) |-> DigitValue(Char(s, i))]

RECURSIVE NumberOf(_)
NumberOf(ds) ==
    IF ds = <<>> THEN 0
    ELSE 10 * NumberOf(SubSeq(ds, 1, Len(ds) - 1)) + ds[Len(ds)]

RECURSIVE Pow(_, _)
Pow(b, k) == IF k = 0 THEN 1 ELSE b * Pow(b, k - 1)

\* the first position of a character of cs in s, 0 when there is none
IndexOf(s, cs) ==
    LET I == {i \in 1..Len(s) : Char(s, i) \in cs}
    IN  IF I = {} THEN 0 ELSE CHOOSE i \in I : \A j \in I : i <= j

UpperCase == "ABCDEFGHIJKLMNOPQRSTUVWXYZ"
LowerCase == "abcdefghijklmnopqrstuvwxyz"

RECURSIVE to_ascii_lowercase(_)
to_ascii_lowercase(s) ==
    IF s = "" THEN ""
    ELSE LET k == IndexOf(UpperCase, {Char(s, 1)})
         IN  (IF k = 0 THEN Char(s, 1) ELSE Char(LowerCase, k))
                 \o to_ascii_lowercase(SubSeq(s, 2, Len(s)))

IsSign(c) == c \in {"+", "-"}

\* the f64 a decimal (-1)^neg * digits * 10^exp10 parses to: exact when it
\* is a binary fraction small enough to compute, infinite or zero far
\* outside the range of f64, the nearest f64 otherwise
DecimalToF64(neg, digits, exp10) ==
    LET d0 == StripLeading(digits, 0)
        d == StripTrailing(d0, 0)
        e == exp10 + TrailingCount(d0, 0)
        n == NumberOf(d)
    IN  IF d = <<>> THEN Finite(neg, <<>>, 0)
        ELSE IF Len(d) + e > 309 THEN Infinity(neg)
        ELSE IF Len(d) + e < -323 THEN Finite(neg, <<>>, 0)
        ELSE IF e >= 0 /\ Len(d) + e <= 9
             THEN Finite(neg, BitsOf(n * Pow(10, e)), 0)
        ELSE IF e < 0 /\ Len(d) <= 9 /\ 0 - e <= 9 /\ n % Pow(5, 0 - e) = 0
             THEN Finite(neg, BitsOf(n \div Pow(5, 0 - e)), e)
        ELSE F64("nearest", neg, d, e)

\* Exp: Some(exponent) or None
parse_exponent(s) ==
    LET signed == s # "" /\ IsSign(Char(s, 1))
        ds == IF signed THEN SubSeq(s, 2, Len(s)) ELSE s
        n == NumberOf(DigitsOf(ds))
    IN  IF ds = "" \/ ~IsDigits(ds) THEN None
        ELSE IF signed /\ Char(s, 1) = "-" THEN Some(0 - n)
        ELSE Some(n)

\* Number: Some(f64) or None
parse_number(neg, s) ==
    LET ePos == IndexOf(s, {"e", "E"})
        m == IF ePos = 0 THEN s ELSE SubSeq(s, 1, ePos - 1)
        x == IF ePos = 0 THEN Some(0)
             ELSE parse_exponent(SubSeq(s, ePos + 1, Len(s)))
        dot == IndexOf(m, {"."})
        int == IF dot = 0 THEN m ELSE SubSeq(m, 1, dot - 1)
        frac == IF dot = 0 THEN "" ELSE SubSeq(m, dot + 1, Len(m))
    IN  IF ~IsSome(x) \/ ~IsDigits(int) \/ ~IsDigits(frac)
           \/ Len(int) + Len(frac) = 0
        THEN None
        ELSE Some(DecimalToF64(neg, DigitsOf(int) \o DigitsOf(frac),
                               x[1] - Len(frac)))

\* v.parse::<f64>(): Some(f64) for Ok, None for Err
parse_f64(s) ==
    LET signed == s # "" /\ IsSign(Char(s, 1))
        neg == signed /\ Char(s, 1) = "-"
        rest == IF signed THEN SubSeq(s, 2, Len(s)) ELSE s
        number == parse_number(neg, rest)
        word == to_ascii_lowercase(rest)
    IN  IF IsSome(number) THEN number
        ELSE IF word \in {"inf", "infinity"} THEN Some(Infinity(neg))
        ELSE IF word = "nan" THEN Some(NaN)
        ELSE None

\* runner::Value, the variants the filter distinguishes and one of the others
NoI64 == I64(FALSE, <<>>)
NoF64 == F64("none", FALSE, <<>>, 0)

Value(type, i, f, s, b) == [type |-> type, i |-> i, f |-> f, s |-> s, b |-> b]
ValueFloat(f) == Value("Float", NoI64, f, "", FALSE)
ValueInteger(i) == Value("Integer", i, NoF64, "", FALSE)
ValueString(s) == Value("String", NoI64, NoF64, s, FALSE)
ValueBool(b) == Value("Bool", NoI64, NoF64, "", b)

\* Value::display: the kind of the value and its text
display(v) ==
    CASE v.type = "String" -> "string <" \o v.s \o ">"
      [] v.type = "Bool" -> "bool <" \o BoolStr(v.b) \o ">"

SourceInfo(l0, c0, l1, c1) ==
    [start |-> [line |-> l0, column |-> c0],
     end |-> [line |-> l1, column |-> c1]]

FilterInvalidInput(message) ==
    [kind |-> "FilterInvalidInput", message |-> message]

\* Error::new
ErrorNew(source_info, inner, assert) ==
    [source_info |-> source_info, inner |-> inner, assert |-> assert]

NoError == ErrorNew(SourceInfo(0, 0, 0, 0), [kind |-> "", message |-> ""], FALSE)

Ok(o) == [ok |-> TRUE, value |-> o, error |-> NoError]
Err(e) == [ok |-> FALSE, value |-> None, error |-> e]

\* the filter with the error of an unparsable string built from its kind
\* only, and the error of another value built without the assert flag
eval_to_float_plain_error(value, source_info, assert) ==
    CASE value.type = "Float" -> Ok(Some(ValueFloat(value.f)))
      [] value.type = "Integer" -> Ok(Some(ValueFloat(as_f64(value.i))))
      [] value.type = "String" ->
            LET parsed == parse_f64(value.s)
            IN  IF IsSome(parsed) THEN Ok(Some(ValueFloat(parsed[1])))
                ELSE Err(ErrorNew(source_info, FilterInvalidInput("string"),
                                  assert))
      [] OTHER ->
            Err(ErrorNew(source_info, FilterInvalidInput(display(value)),
                         FALSE))

\* the filter with an integer passed through as it is
eval_to_float_keep_integer(value, source_info, assert) ==
    CASE value.type = "Float" -> Ok(Some(ValueFloat(value.f)))
      [] value.type = "Integer" -> Ok(Some(value))
      [] value.type = "String" ->
            LET parsed == parse_f64(value.s)
            IN  IF IsSome(parsed) THEN Ok(Some(ValueFloat(parsed[1])))
                ELSE Err(ErrorNew(source_info,
                                  FilterInvalidInput(display(value)), assert))
      [] OTHER ->
            Err(ErrorNew(source_info, FilterInvalidInput(display(value)),
                         assert))

\* eval_to_float
eval_to_float(value, source_info, assert) ==
    CASE value.type = "Float" -> Ok(Some(ValueFloat(value.f)))
      [] value.type = "Integer" -> Ok(Some(ValueFloat(as_f64(value.i))))
      [] value.type = "String" ->
            LET parsed == parse_f64(value.s)
            IN  IF IsSome(parsed) THEN Ok(Some(ValueFloat(parsed[1])))
                ELSE Err(ErrorNew(source_info,
                                  FilterInvalidInput(display(value)), assert))
      [] OTHER ->
            Err(ErrorNew(source_info, FilterInvalidInput(display(value)),
                         assert))

\* the values the filter is called with
FloatValues ==
    << ValueFloat(F64("nearest", FALSE, <<3, 1, 4, 1, 5>>, -4)),
       ValueFloat(Finite(FALSE, <<1, 1>>, 0)),
       ValueFloat(Finite(TRUE, <<1>>, -1)),
       ValueFloat(Finite(FALSE, <<>>, 0)),
       ValueFloat(Finite(TRUE, <<>>, 0)),
       ValueFloat(Infinity(FALSE)),
       ValueFloat(NaN) >>

SmallIntegers == (0 - MaxMagnitude)..MaxMagnitude

IntegerValues ==
    [k \in 1..(2 * MaxMagnitude + 1) |->
        ValueInteger(IntegerOf(k - MaxMagnitude - 1))]
    \o << ValueInteger(I64(FALSE, PowerOfTwo(53))),
          ValueInteger(I64(FALSE, PowerOfTwoPlus(53, 1))),
          ValueInteger(I64(FALSE, PowerOfTwoPlus(53, 3))),
          ValueInteger(I64(FALSE, AllOnes(63))),
          ValueInteger(I64(TRUE, PowerOfTwo(63))) >>

StringTexts ==
    << "3.1415", "3x.1415", "3", "3.0", "", " 3", "3 ", "-1.5", "+2", ".5",
       "5.", ".", "1e3", "1E-2", "1e", "e5", "inf", "-Infinity", "NaN",
       "nanx", "0x10", "1_000", "1,5", "true", "abc", "1e400", "--1",
       "1.2.3", "+", "-", "0.1", "-0", "1e-400", "1.5e+1", "3.1415f" >>

StringValues == [k \in 1..Len(StringTexts) |-> ValueString(StringTexts[k])]

BoolValues == << ValueBool(TRUE), ValueBool(FALSE) >>

ToFloatValues == FloatValues \o IntegerValues \o StringValues \o BoolValues

SourceInfos == << SourceInfo(1, 1, 1, 1), SourceInfo(2, 5, 2, 12) >>

ToFloatCall(value, source_info, assert) ==
    [value |-> value, source_info |-> source_info, assert |-> assert]

InitToFloat ==
    /\ NoFormatter
    /\ \E v \in DOMAIN ToFloatValues, si \in DOMAIN SourceInfos,
          a \in BOOLEAN :
            input = ToFloatCall(ToFloatValues[v], SourceInfos[si], a)
    /\ output = ""
    /\ phase = "call"

\* the value is borrowed: the call leaves it as it is
CallEvalToFloat ==
    /\ phase = "call"
    /\ output' = eval_to_float(input.value, input.source_info, input.assert)
    /\ phase' = "ret"
    /\ UNCHANGED <<input, fmtVars>>

NextToFloat == CallEvalToFloat

SpecToFloat == InitToFloat /\ [][NextToFloat]_vars

---------------------------------------------------------------------------
(* C11, C12: eval_to_float                                                 *)

\* the texts of the grammar of f64, stated as a decomposition of the text
IsExponentText(x) ==
    /\ Len(x) >= 2
    /\ Char(x, 1) \in {"e", "E"}
    /\ \/ IsDigits(SubSeq(x, 2, Len(x)))
       \/ /\ IsSign(Char(x, 2))
          /\ Len(x) >= 3
          /\ IsDigits(SubSeq(x, 3, Len(x)))

IsMantissaText(m) ==
    \E k \in 0..Len(m) :
        LET int == SubSeq(m, 1, k)
            rest == SubSeq(m, k + 1, Len(m))
        IN  /\ IsDigits(int)
            /\ \/ rest = "" /\ int # ""
               \/ /\ rest # ""
                  /\ Char(rest, 1) = "."
                  /\ IsDigits(SubSeq(rest, 2, Len(rest)))
                  /\ Len(int) + Len(rest) >= 2

IsNumberText(r) ==
    \E k \in 0..Len(r) :
        /\ IsMantissaText(SubSeq(r, 1, k))
        /\ k = Len(r) \/ IsExponentText(SubSeq(r, k + 1, Len(r)))

IsFloatText(s) ==
    \E sign \in {"", "+", "-"} :
        /\ StartsWithAt(s, 1, sign)
        /\ LET r == SubSeq(s, Len(sign) + 1, Len(s))
           IN  \/ to_ascii_lowercase(r) \in {"inf", "infinity", "nan"}
               \/ IsNumberText(r)

Returned == phase = "ret" /\ procs = {}

\* C11: eval_to_float fails exactly when its input is a string that is no
\* text of a floating-point number, or a value that is neither a number nor
\* a string; the failure is an Error of kind FilterInvalidInput whose
\* message is the display form of the input value, and whose source_info
\* and assert flag are the ones the call was given.
C11_Failure ==
    Returned =>
        LET v == input.value
            rejected ==
                \/ v.type = "String" /\ ~IsFloatText(v.s)
                \/ v.type \notin {"Float", "Integer", "String"}
        IN  /\ ~output.ok <=> rejected
            /\ ~output.ok =>
                /\ output.value = None
                /\ output.error.inner.kind = "FilterInvalidInput"
                /\ output.error.inner.message = display(v)
                /\ output.error.source_info = input.source_info
                /\ output.error.assert = input.assert

\* an unparsable string and a boolean have both been rejected, with the
\* asserting flag set and the second source position
C11_Witness ==
    /\ Returned
    /\ input.value = ValueString("3x.1415")
    /\ input.assert
    /\ input.source_info = SourceInfos[2]
    /\ ~output.ok
    /\ output.error.inner.message = "string <3x.1415>"
    /\ eval_to_float(ValueBool(TRUE), input.source_info, input.assert)
        = Err(ErrorNew(SourceInfos[2], FilterInvalidInput("bool <true>"),
                       TRUE))

\* the two f64 next to an i64 of more than 53 significant bits
Neighbours(mag) ==
    LET top == SubSeq(mag, 1, MantissaDigits)
        zeros == [j \in 1..(Len(mag) - MantissaDigits) |-> 0]
    IN  {top \o zeros, Increment(top) \o zeros}

\* C12: a successful eval_to_float returns Some Float and never None: a
\* Float is returned with the same value, an Integer n as the f64 of n
\* (n itself up to 53 significant bits, one of the two f64 next to n
\* above), a String as the f64 its text parses to; every result is
\* Ok(Some(Float)) or Err, the outcome and the number returned are the same
\* whatever source_info and assert flag are passed, and the input value is
\* the one the call was given.
C12_Success ==
    Returned =>
        LET v == input.value
        IN  /\ output.ok =>
                /\ IsSome(output.value)
                /\ output.value[1].type = "Float"
                /\ output.value[1].f.kind # "none"
                /\ output.error = NoError
            /\ v.type = "Float" => output = Ok(Some(v))
            /\ v.type = "Integer" =>
                /\ output.ok
                /\ output.value[1].f.kind = "finite"
                /\ output.value[1].f.neg = v.i.neg
                /\ output.value[1].f.exp >= 0
                /\ IF Len(v.i.mag) <= MantissaDigits
                   THEN MagnitudeOf(output.value[1].f) = v.i.mag
                   ELSE MagnitudeOf(output.value[1].f) \in Neighbours(v.i.mag)
            /\ v.type = "String" /\ IsFloatText(v.s) =>
                /\ output.ok
                /\ output.value = Some(ValueFloat(parse_f64(v.s)[1]))
            /\ \A si \in DOMAIN SourceInfos, a \in BOOLEAN :
                LET other == eval_to_float(v, SourceInfos[si], a)
                IN  /\ other.ok = output.ok
                    /\ other.value = output.value
            /\ v \in {ToFloatValues[k] : k \in DOMAIN ToFloatValues}

\* the integer 3 has been returned as the float 3.0, which is also what the
\* float 3.0 and the texts "3" and "3.0" give
C12_Witness ==
    /\ Returned
    /\ input.value = ValueInteger(IntegerOf(3))
    /\ output = Ok(Some(ValueFloat(Finite(FALSE, <<1, 1>>, 0))))
    /\ \A t \in {"3", "3.0"} :
        eval_to_float(ValueString(t), input.source_info, input.assert)
            = output

---------------------------------------------------------------------------
(* C13: multiline-string, JSON and XML payloads                            *)

PayloadClass(bytes) ==
    CASE bytes.type = "MultilineString" -> "multiline"
      [] bytes.type = "Json" -> "json"
      [] bytes.type = "Xml" -> "xml"
      [] OTHER -> ""

\* the source text of a payload, as it is spelled in the file
PayloadSource(bytes) ==
    CASE bytes.type = "MultilineString" ->
            multiline_string_to_source(bytes.value)
      [] bytes.type = "Json" -> json_value_to_source(bytes.value)
      [] bytes.type = "Xml" -> bytes.value

\* the bodies of the document of call p: entry, side and body
Bodies(p) ==
    {<<ent, "request", doc[p].entries[ent].request.body[1]>> :
        ent \in {e \in 1..Len(doc[p].entries) :
                    IsSome(doc[p].entries[e].request.body)}}
    \cup
    {<<ent, "response", doc[p].entries[ent].response[1].body[1]>> :
        ent \in {e \in 1..Len(doc[p].entries) :
                    /\ IsSome(doc[p].entries[e].response)
                    /\ IsSome(doc[p].entries[e].response[1].body)}}

BodyOps(p, ent, side) ==
    SelectSeq(log[p],
              LAMBDA o : o.ent = ent /\ o.side = side /\ o.part = "body")

Written(p) == pc[p] \in {"running", "done"} /\ todo[p] = <<>>

\* C13: a multiline-string, JSON or XML payload is rendered as exactly one
\* span of class "multiline", "json" or "xml"; the span holds escape_xml,
\* applied once, of the whole source text of the payload as it is spelled
\* (a JSON string spelled backslash-n is written backslash, n), whitespace
\* and newlines included, and around the span the body writes only its own
\* line terminators and whitespace.
C13_PayloadSpan ==
    \A p \in procs :
        Written(p) =>
            \A b \in Bodies(p) :
                PayloadClass(b[3].value) # "" =>
                    LET class == PayloadClass(b[3].value)
                        ops == BodyOps(p, b[1], b[2])
                        spans == SelectSeq(ops, LAMBDA o : o.class # "")
                        span == SpanOpenTag(class)
                                    \o escape_xml(PayloadSource(b[3].value))
                                    \o SpanCloseTag
                    IN  /\ Len(SelectSeq(spans, LAMBDA o : o.class = class)) = 1
                        /\ \A k \in 1..Len(spans) :
                            spans[k].class \in {class, "comment"}
                        /\ \A k \in 1..Len(spans) :
                            spans[k].class = class =>
                                /\ spans[k].text = span
                                /\ spans[k].esc = 1
                        /\ TextOf(ops)
                            = TextOf(fmt_lts(b[3].line_terminators))
                                \o b[3].space0.value
                                \o span
                                \o TextOf(fmt_lt(b[3].line_terminator0))

\* a document with a JSON, a multiline-string and an XML body has been
\* written; the JSON string is written as it is spelled, backslash and n
C13_Witness ==
    \E p \in procs :
        /\ Written(p)
        /\ {"json", "multiline", "xml"}
            \subseteq {PayloadClass(b[3].value) : b \in Bodies(p)}
        /\ Contains(buffer[p], "<span class=\"json\">{\"k\": \"\\n")
        /\ Contains(buffer[p], "<span class=\"multiline\">'''\n")
        /\ Contains(buffer[p], "<span class=\"xml\">&lt;a&gt;")

---------------------------------------------------------------------------
(* C14: the redact marker of a capture                                     *)

EndsWith(s, t) ==
    Len(t) <= Len(s) /\ SubSeq(s, Len(s) - Len(t) + 1, Len(s)) = t

\* the request and the response of the entries of call p: entry, side, node
Sides(p) ==
    {<<ent, "request", doc[p].entries[ent].request>> :
        ent \in 1..Len(doc[p].entries)}
    \cup
    {<<ent, "response", doc[p].entries[ent].response[1]>> :
        ent \in {e \in 1..Len(doc[p].entries) :
                    IsSome(doc[p].entries[e].response)}}

\* the [Captures] sections of call p: entry, side, section index, captures
CaptureSections(p) ==
    UNION {{<<s[1], s[2], i, s[3].sections[i].value.items>> :
                i \in {j \in 1..Len(s[3].sections) :
                          s[3].sections[j].value.type = "Captures"}} :
            s \in Sides(p)}

\* a capture as it is to be written, with `marker` for a set redact flag
CaptureText(c, marker) ==
    TextOf(fmt_lts(c.line_terminators))
        \o c.space0.value
        \o TextOf(fmt_template(c.name))
        \o c.space1.value \o ":" \o c.space2.value
        \o TextOf(fmt_query(c.query))
        \o TextOf(fmt_filters(c.filters))
        \o c.space3.value
        \o (IF c.redact THEN marker ELSE "")
        \o TextOf(fmt_lt(c.line_terminator0))

\* every [Captures] section has been written as its captures in order
CapturesWritten(p, marker) ==
    \A s \in CaptureSections(p) :
        EndsWith(ChildText(p, s[1], s[2], "sections", s[3]),
                 Join([i \in 1..Len(s[4]) |-> CaptureText(s[4][i], marker)]))

\* the statement with the marker written bare, without a span
C14_Original == \A p \in procs : Written(p) => CapturesWritten(p, "redact")

\* C14: the redact marker of a capture is written if and only if the
\* capture's redact flag is set; it is the token "redact" inside a span of
\* class "string", and it comes after the query, after every (whitespace,
\* filter) pair and after space3, before the final line terminator.
C14_RedactMarker ==
    \A p \in procs :
        Written(p) =>
            CapturesWritten(p, SpanOpenTag("string") \o "redact"
                                   \o SpanCloseTag)

\* a capture with a filter and the redact flag has been written
C14_Witness ==
    \E p \in procs :
        /\ Written(p)
        /\ \E s \in CaptureSections(p) :
            \E i \in 1..Len(s[4]) : s[4][i].redact /\ s[4][i].filters # <<>>
        /\ Contains(buffer[p],
                    "<span class=\"string\">\"b\"</span> "
                        \o "<span class=\"string\">redact</span>\n")

---------------------------------------------------------------------------
(* C15, C16, C17: filenames, cookie paths, count options                   *)

\* every space of s written backslash-space, every other character kept
SpacesEscaped(s) ==
    Join([i \in 1..Len(s) |-> IF Char(s, i) = " " THEN "\\ " ELSE Char(s, i)])

FilenameSpan(filename) ==
    SpanOpenTag("filename") \o SpacesEscaped(template_to_string(filename))
        \o SpanCloseTag

\* the sections of call p whose type is in types: entry, side, index, items
SectionsOf(p, types) ==
    UNION {{<<s[1], s[2], i, s[3].sections[i].value.items>> :
                i \in {j \in 1..Len(s[3].sections) :
                          s[3].sections[j].value.type \in types}} :
            s \in Sides(p)}

\* the last option of every [Options] section whose kind is in kinds has
\* been written as its name, its separator, text(value) and its line end
OptionsWritten(p, kinds, text(_)) ==
    \A s \in SectionsOf(p, {"Options"}) :
        s[4] # <<>> /\ s[4][Len(s[4])].kind.type \in kinds =>
            LET o == s[4][Len(s[4])]
            IN  EndsWith(ChildText(p, s[1], s[2], "sections", s[3]),
                         SpanOpenTag("string") \o OptionIdentifier[o.kind.type]
                             \o SpanCloseTag
                             \o o.space1.value \o ":" \o o.space2.value
                             \o text(o.kind.value)
                             \o TextOf(fmt_lt(o.line_terminator0)))

FilenameKinds ==
    {"CaCertificate", "ClientCert", "ClientKey", "NetRcFile", "Output",
     "UnixSocket"}

\* C15: a filename is rendered as one span of class "filename" that holds
\* the text of the filename template with every space written
\* backslash-space and nothing else changed: "&", "<" and ">" are written
\* as they are.
C15_Filename ==
    \A p \in procs :
        Written(p) =>
            /\ \A b \in Bodies(p) :
                b[3].value.type = "File" =>
                    TextOf(BodyOps(p, b[1], b[2]))
                        = TextOf(fmt_lts(b[3].line_terminators))
                            \o b[3].space0.value
                            \o "file," \o b[3].value.value.space0.value
                            \o FilenameSpan(b[3].value.value.filename)
                            \o b[3].value.value.space1.value \o ";"
                            \o TextOf(fmt_lt(b[3].line_terminator0))
            /\ OptionsWritten(p, FilenameKinds, FilenameSpan)

\* a file body and an output option naming a file with a space have been
\* written
C15_Witness ==
    \E p \in procs :
        /\ Written(p)
        /\ \E b \in Bodies(p) :
            /\ b[3].value.type = "File"
            /\ Contains(template_to_string(b[3].value.value.filename), " ")
        /\ Contains(buffer[p],
                    "file,<span class=\"filename\">fa\\ b</span>;")
        /\ Contains(buffer[p],
                    "<span class=\"string\">output</span>: "
                        \o "<span class=\"filename\">fa\\ b</span>")

CookiePathSpan(cookie_path) ==
    SpanOpenTag("string") \o "\"" \o template_to_source(cookie_path.name)
        \o (IF IsSome(cookie_path.attribute)
            THEN "[" \o cookie_path.attribute[1].space0.value
                     \o cookie_path.attribute[1].name.value
                     \o cookie_path.attribute[1].space1.value \o "]"
            ELSE "")
        \o "\"" \o SpanCloseTag

\* the captures and asserts of call p that query a cookie
CookieQueries(p) ==
    UNION {{<<s[1], s[2], s[3], s[4][i].query.value>> :
                i \in {j \in 1..Len(s[4]) :
                          s[4][j].query.value.type = "Cookie"}} :
            s \in SectionsOf(p, {"Captures", "Asserts"})}

\* C16: the payload of a cookie query is one span of class "string" that
\* holds a double quote, the source text of the cookie name, then, only
\* when there is an attribute, "[", the attribute's leading whitespace, its
\* name, its trailing whitespace and "]", then a double quote; without an
\* attribute no bracket is written.
C16_CookiePath ==
    \A p \in procs :
        Written(p) =>
            \A q \in CookieQueries(p) :
                Contains(ChildText(p, q[1], q[2], "sections", q[3]),
                         SpanOpenTag("query-type") \o "cookie" \o SpanCloseTag
                             \o q[4].space0.value
                             \o CookiePathSpan(q[4].expr))

\* a cookie query with an attribute has been written
C16_Witness ==
    \E p \in procs :
        /\ Written(p)
        /\ \E q \in CookieQueries(p) : IsSome(q[4].expr.attribute)
        /\ Contains(buffer[p],
                    "<span class=\"string\">\"sa b[ Path ]\"</span>")

CountKinds == {"MaxRedirect", "Repeat", "Retry"}

CountSpan(count_option) ==
    CASE count_option.type = "Placeholder" ->
            SpanOpenTag("expr") \o placeholder_to_source(count_option.value)
                \o SpanCloseTag
      [] count_option.value.type = "Infinite" ->
            SpanOpenTag("number") \o "-1" \o SpanCloseTag
      [] count_option.value.type = "Finite" ->
            SpanOpenTag("number") \o Decimal(count_option.value.n)
                \o SpanCloseTag

\* C17: the value of a max-redirs, repeat or retry option is one span: of
\* class "number" holding "-1" for Count::Infinite and the decimal text of
\* n for Count::Finite(n), of class "expr" holding the placeholder when the
\* option is given as a placeholder.
C17_CountOption ==
    \A p \in procs : Written(p) => OptionsWritten(p, CountKinds, CountSpan)

\* an infinite max-redirs option has been written
C17_Witness ==
    \E p \in procs :
        /\ Written(p)
        /\ \E s \in SectionsOf(p, {"Options"}) :
            /\ s[4] # <<>>
            /\ s[4][Len(s[4])].kind.type = "MaxRedirect"
            /\ s[4][Len(s[4])].kind.value.type = "Literal"
            /\ s[4][Len(s[4])].kind.value.value.type = "Infinite"
        /\ Contains(buffer[p],
                    "<span class=\"string\">max-redirs</span>: "
                        \o "<span class=\"number\">-1</span>\n")

---------------------------------------------------------------------------
(* C18: fmt_lts and fmt_lt                                                 *)

\* line terminators in a sequence given to fmt_lts
MaxLts == 2

LtSpaces == <<"", " ">>
LtComments == <<None, Remark("<&")>>
LtNewlines == <<"", "\n">>

\* every line terminator made of these parts
LtMembers ==
    [k \in 1..8 |->
        LT(LtSpaces[((k - 1) % 2) + 1],
           LtComments[(((k - 1) \div 2) % 2) + 1],
           LtNewlines[((k - 1) \div 4) + 1])]

\* a formatter is given a sequence of line terminators; seq is the buffer
\* of the one that calls fmt_lts, each the buffer of the one that calls
\* fmt_lt for every member, n the members it has been called for
InitLts ==
    /\ NoFormatter
    /\ \E n \in 0..MaxLts :
        \E f \in [1..n -> DOMAIN LtMembers] :
            input = [i \in 1..n |-> LtMembers[f[i]]]
    /\ output = [seq |-> "", each |-> "", n |-> 0]
    /\ phase = "call"

CallFmtLts ==
    /\ phase = "call"
    /\ output' = [output EXCEPT !.seq = @ \o TextOf(fmt_lts(input))]
    /\ phase' = IF input = <<>> THEN "ret" ELSE "each"
    /\ UNCHANGED <<input, fmtVars>>

CallFmtLt ==
    /\ phase = "each"
    /\ output.n < Len(input)
    /\ output' = [output EXCEPT
                      !.each = @ \o TextOf(fmt_lt(input[output.n + 1])),
                      !.n = @ + 1]
    /\ phase' = IF output.n + 1 = Len(input) THEN "ret" ELSE "each"
    /\ UNCHANGED <<input, fmtVars>>

NextLts == CallFmtLts \/ CallFmtLt

SpecLts == InitLts /\ [][NextLts]_vars

\* a line terminator as it is to be written: its whitespace, its comment
\* escaped in a span, its newline
LtText(lt) ==
    lt.space0.value
        \o (IF IsSome(lt.comment)
            THEN SpanOpenTag("comment") \o "#"
                     \o escape_xml(lt.comment[1].value) \o SpanCloseTag
            ELSE "")
        \o lt.newline.value

\* C18: for every sequence of line terminators, members with an empty
\* newline included, what fmt_lts appends to the buffer is what fmt_lt
\* appends for each member in order, and that is each member's whitespace,
\* comment and newline; leaving out the push of an empty newline changes
\* nothing.
C18_LtsIsEachLt ==
    /\ phase = "ret" /\ procs = {} /\ output.n = Len(input) =>
        /\ output.seq = output.each
        /\ output.seq = Join([i \in 1..Len(input) |-> LtText(input[i])])
    /\ phase = "each" /\ procs = {} =>
        output.each = Join([i \in 1..output.n |-> LtText(input[i])])

\* two line terminators have been written both ways, one of them with a
\* comment and an empty newline
C18_Witness ==
    /\ phase = "ret" /\ procs = {}
    /\ Len(input) = 2
    /\ output.n = 2
    /\ input[1].newline.value = "" /\ IsSome(input[1].comment)
    /\ input[2].newline.value = "\n"
    /\ output.seq = "<span class=\"comment\">#&lt;&amp;</span> \n"

---------------------------------------------------------------------------
(* C19: the renderer's tags are balanced and nested                        *)

\* an operation of fmt_span: the open tag, the value and the close tag
IsSpan(o) == o.op = "push" /\ o.class # "" /\ o.origin \notin {"open", "pre_open"}

\* the "<span ...>" and the "</span>" call p has written so far as tags
Opens(p) ==
    Cardinality({i \in 1..Len(log[p]) :
                    log[p][i].origin = "open" \/ IsSpan(log[p][i])})
Closes(p) ==
    Cardinality({i \in 1..Len(log[p]) :
                    log[p][i].origin = "close" \/ IsSpan(log[p][i])})

\* a tag operation writes the tag it stands for
TagText(o) ==
    /\ o.origin = "open" => o.text = SpanOpenTag(o.class)
    /\ o.origin = "close" => o.text = SpanCloseTag
    /\ o.origin = "pre_open" => StartsWithAt(o.text, 1, "<pre><code")
    /\ o.origin = "pre_close" => o.text = "</code></pre>"
    /\ IsSpan(o) =>
        /\ StartsWithAt(o.text, 1, SpanOpenTag(o.class))
        /\ EndsWith(o.text, SpanCloseTag)

\* C19: at every step of fmt_hurl_file the "</span>" written so far are no
\* more than the "<span ...>", and when it finishes they are as many; the
\* spans of a request and of a response are opened and closed inside the
\* span of their entry, which is outside every other span; the one
\* "<pre><code>" is written first and closed last, outside every span.
C19_Balanced ==
    \A p \in procs :
        LET n == Len(log[p])
            depth == Opens(p) - Closes(p)
        IN  /\ Closes(p) <= Opens(p)
            /\ Written(p) => Opens(p) = Closes(p)
            /\ Written(p) /\ n > 0 => log[p][n].origin = "pre_close"
            /\ Cardinality({i \in 1..n : log[p][i].origin = "pre_open"}) <= 1
            /\ n > 0 =>
                LET o == log[p][n]
                IN  /\ TagText(o)
                    /\ o.side = "pre_open" =>
                        /\ o.origin = "pre_open"
                        /\ \A i \in 1..(n - 1) : log[p][i].op = "clear"
                    /\ o.side = "entry" => o.origin = "open" /\ depth = 1
                    /\ o.side \in {"request", "response"} =>
                        CASE o.part = "open" ->
                                o.origin = "open" /\ depth = 2
                          [] o.part = "close" ->
                                o.origin = "close" /\ depth = 1
                          [] OTHER -> depth >= 2
                    /\ o.side = "entry_end" => o.origin = "close" /\ depth = 0
                    /\ o.side = "line_terminators" => depth = 0
                    /\ o.origin = "pre_close" =>
                        /\ depth = 0
                        /\ todo[p] = <<>>
                        /\ \E i \in 1..n : log[p][i].origin = "pre_open"

\* a file of two entries, one with a response, has been rendered: its
\* spans were opened and are all closed
C19_Witness ==
    \E p \in procs :
        /\ Written(p)
        /\ Len(doc[p].entries) = 2
        /\ \E e \in 1..2 : IsSome(doc[p].entries[e].response)
        /\ Opens(p) = Closes(p)
        /\ Cardinality({i \in 1..Len(log[p]) :
                           log[p][i].origin = "open"
                               /\ log[p][i].class \in {"entry", "request",
                                                       "response"}}) >= 5

===========================================================================
